---- MODULE Spec2Model ----
(***************************************************************************)
(* Cyclic-executive scheduling of periodic tasks: frame-size derivation,   *)
(* valid-frame enumeration, the network-flow + best-fit-descent solver,    *)
(* the ILP solver, schedule materialization and schedule validation.       *)
(***************************************************************************)
EXTENDS Integers, Sequences, FiniteSets, TLC

\* ------------------------------------------------------------------------
\* Bounds of the model
\* ------------------------------------------------------------------------
MaxTasks == 2
MaxPeriod == 4
MaxSlack == 1
MaxBuilderJobs == 3
MaxIntervals == 3
MaxCalls == 2

\* ------------------------------------------------------------------------
\* Generic helpers
\* ------------------------------------------------------------------------
Min(a, b) == IF a <= b THEN a ELSE b
Max(a, b) == IF a >= b THEN a ELSE b

RECURSIVE gcd(_, _)
gcd(a, b) == IF b = 0 THEN a ELSE gcd(b, a % b)

lcm2(a, b) == (a * b) \div gcd(a, b)

RECURSIVE lcm(_)
lcm(s) == IF Len(s) = 0 THEN 1 ELSE lcm2(Head(s), lcm(Tail(s)))

RECURSIVE SumSeq(_)
SumSeq(s) == IF Len(s) = 0 THEN 0 ELSE Head(s) + SumSeq(Tail(s))

RECURSIVE Concat(_)
Concat(ss) == IF Len(ss) = 0 THEN <<>> ELSE Head(ss) \o Concat(Tail(ss))

Range(s) == {s[x] : x \in DOMAIN s}

\* Python's list.sort / sorted: a stable sort, here of <<key, item>> pairs by key.
RECURSIVE InsertByKey(_, _)
InsertByKey(x, s) ==
    IF Len(s) = 0 THEN <<x>>
    ELSE IF x[1] < Head(s)[1] THEN <<x>> \o s
    ELSE <<Head(s)>> \o InsertByKey(x, Tail(s))

RECURSIVE SortPairs(_)
SortPairs(s) ==
    IF Len(s) = 0 THEN <<>>
    ELSE InsertByKey(s[Len(s)], SortPairs(SubSeq(s, 1, Len(s) - 1)))

Items(ps) == [x \in 1..Len(ps) |-> ps[x][2]]

\* ------------------------------------------------------------------------
\* Task / Job / TaskSet data model
\* ------------------------------------------------------------------------
TaskShapes ==
    {t \in [period : 1..MaxPeriod, wcet : 0..MaxPeriod, relativeDeadline : 1..MaxPeriod] :
        /\ t.wcet <= t.period
        /\ t.wcet <= t.relativeDeadline
        /\ t.relativeDeadline <= t.period}

IdOrders(n) == {ids \in [1..n -> 1..n] : \A a, b \in 1..n : ids[a] = ids[b] => a = b}

\* The task sets the runs are started on: tasks in insertion order, unique ids.
TaskSets ==
    UNION {{[x \in 1..n |-> [id |-> ids[x], period |-> sh[x].period, wcet |-> sh[x].wcet,
                             relativeDeadline |-> sh[x].relativeDeadline]] :
               sh \in [1..n -> TaskShapes], ids \in IdOrders(n)} : n \in 1..MaxTasks}

Task(i, p, c, d) == [id |-> i, period |-> p, wcet |-> c, relativeDeadline |-> d]

\* Task.wcet is a float. A task record holds its whole units in wcet and, where it has
\* the field, one more half unit in half; wcetHalves is the exact value in half units.
wcetHalves(t) == 2 * t.wcet + (IF "half" \in DOMAIN t THEN t.half ELSE 0)

\* int(task.wcet)
intWcetRoundedUp(t) == (wcetHalves(t) + 1) \div 2

intWcet(t) == wcetHalves(t) \div 2

\* Three-task sets (H = 12, f = 2) on which max-flow splits a job whose window
\* covers only part of the hyperperiod and best-fit descent re-places it.
RepairTaskSets ==
    {<<Task(1, 4, 0, 3), Task(2, 6, 1, 6), Task(3, 6, 2, 6)>>,
     <<Task(1, 4, 1, 3), Task(2, 6, 1, 6), Task(3, 6, 2, 6)>>}

\* Task sets with a relative deadline beyond the period for some task (the data model
\* asks D_i >= C_i and C_i <= T_i only): frame sizes longer than a window are accepted.
WideDeadlineShapes ==
    {t \in [period : 1..MaxPeriod, wcet : 0..MaxPeriod,
            relativeDeadline : 1..(MaxPeriod + MaxSlack)] :
        /\ t.wcet <= t.period
        /\ t.relativeDeadline > t.period
        /\ t.relativeDeadline <= t.period + MaxSlack}

WideDeadlineTaskSets ==
    UNION {{[x \in 1..n |-> [id |-> ids[x], period |-> sh[x].period, wcet |-> sh[x].wcet,
                             relativeDeadline |-> sh[x].relativeDeadline]] :
               sh \in {q \in [1..n -> TaskShapes \cup WideDeadlineShapes] :
                          \E x \in 1..n : q[x] \in WideDeadlineShapes},
               ids \in IdOrders(n)} : n \in 1..MaxTasks}

\* Task sets in which at least one WCET has a half unit (C = wcet + 1/2), ids in
\* insertion order.
FractionalShapes ==
    {t \in [period : 1..MaxPeriod, wcet : 0..MaxPeriod, half : {0, 1},
            relativeDeadline : 1..MaxPeriod] :
        /\ 2 * t.wcet + t.half <= 2 * t.period
        /\ 2 * t.wcet + t.half <= 2 * t.relativeDeadline
        /\ t.relativeDeadline <= t.period}

FractionalTaskSets ==
    UNION {{[x \in 1..n |-> [id |-> x, period |-> sh[x].period, wcet |-> sh[x].wcet,
                             half |-> sh[x].half,
                             relativeDeadline |-> sh[x].relativeDeadline]] :
               sh \in {q \in [1..n -> FractionalShapes] : \E x \in 1..n : q[x].half = 1}} :
           n \in 1..MaxTasks}

\* Literal task sets: T = [4, 5, 20, 20], C = [1, 2, 1, 2], D = T and
\* T = [3, 6], C = [1, 2], D = T, tasks inserted in that order with ids 1, 2, ...
Scenario1Tasks == <<Task(1, 4, 1, 4), Task(2, 5, 2, 5), Task(3, 20, 1, 20), Task(4, 20, 2, 20)>>
Scenario2Tasks == <<Task(1, 3, 1, 3), Task(2, 6, 2, 6)>>
\* T = [4, 6, 12], C = [1, 2, 3], D = T and the over-utilized T = [3, 5], C = [2, 4], D = T.
Scenario3Tasks == <<Task(1, 4, 1, 4), Task(2, 6, 2, 6), Task(3, 12, 3, 12)>>
Scenario4Tasks == <<Task(1, 3, 2, 3), Task(2, 5, 4, 5)>>
ScenarioTaskSets == {Scenario1Tasks, Scenario2Tasks, Scenario3Tasks, Scenario4Tasks}

getTaskById(ts, i) == ts[CHOOSE x \in 1..Len(ts) : ts[x].id = i]

\* The jobs of one hyperperiod, task by task in insertion order: j = 1..H/T_i.
JobsOfTask(t, H) == [j \in 1..(H \div t.period) |-> [task |-> t.id, id |-> j]]
BuildJobs(ts) ==
    LET H == lcm([x \in 1..Len(ts) |-> ts[x].period])
    IN  Concat([x \in 1..Len(ts) |-> JobsOfTask(ts[x], H)])

JobKey(job) == <<job.task, job.id>>
JobPeriod(ts, job) == getTaskById(ts, job.task).period
JobWcet(ts, job) == getTaskById(ts, job.task).wcet
JobReleaseTime(ts, job) == (job.id - 1) * JobPeriod(ts, job)
JobDeadline(ts, job) == job.id * JobPeriod(ts, job)
JobRemainingTime(ts, job) == JobWcet(ts, job)

\* ------------------------------------------------------------------------
\* Frame geometry (CyclicSchedulerAlgorithm / IlpScheduler construction)
\* ------------------------------------------------------------------------
getHyperPeriod(ts) == lcm([x \in 1..Len(ts) |-> ts[x].period])

isValidFrameSizeNoLemma(ts, H, frameSize) ==
    /\ H % frameSize = 0
    /\ \A x \in 1..Len(ts) : ~(2 * frameSize < wcetHalves(ts[x]))

isValidFrameSize(ts, H, frameSize) ==
    /\ H % frameSize = 0
    /\ \A x \in 1..Len(ts) :
          /\ ~(2 * frameSize < wcetHalves(ts[x]))
          /\ ~((2 * frameSize - gcd(ts[x].period, frameSize)) > ts[x].relativeDeadline)

RECURSIVE searchFrameSize(_, _, _, _)
searchFrameSize(ts, H, i, stop) ==
    IF i <= stop THEN 0
    ELSE IF isValidFrameSize(ts, H, i) THEN i
    ELSE searchFrameSize(ts, H, i - 1, stop)

\* range(hyperPeriod, 1, -1); 0 stands for the raised ValueError.
getValidFrameSizeDownToOne(ts, H) == searchFrameSize(ts, H, H, 0)

getValidFrameSizeSkipTwo(ts, H) == searchFrameSize(ts, H, H, 2)

getValidFrameSize(ts, H) == searchFrameSize(ts, H, H, 1)

validFramesOfJobStrict(ts, job, f, F) ==
    LET p == JobPeriod(ts, job)
        j == job.id
    IN  SelectSeq([k \in 1..F |-> k],
                  LAMBDA k : (k - 1) * f > ((j - 1) * p) /\ k * f <= (j * p))

validFramesOfJobAnyStart(ts, job, f, F) ==
    LET p == JobPeriod(ts, job)
        j == job.id
    IN  SelectSeq([k \in 1..F |-> k], LAMBDA k : k * f <= (j * p))

validFramesOfJob(ts, job, f, F) ==
    LET p == JobPeriod(ts, job)
        j == job.id
    IN  SelectSeq([k \in 1..F |-> k],
                  LAMBDA k : (k - 1) * f >= ((j - 1) * p) /\ k * f <= (j * p))

buildValidFrameSet(ts, js, f, F) ==
    [key \in {JobKey(js[x]) : x \in 1..Len(js)} |->
        validFramesOfJob(ts, [task |-> key[1], id |-> key[2]], f, F)]

\* ------------------------------------------------------------------------
\* Flow network of NetworkFlowScheduler
\* ------------------------------------------------------------------------
Infinity == 1000000

sourceIndex == 0
sinkIndex == 1

numNodesOf(js, F) == Len(js) + F + 2

makeIndexToNodeIdMap(js, F) ==
    [i \in 0..(numNodesOf(js, F) - 1) |->
        IF i = 0 THEN <<-2, 0>>
        ELSE IF i = 1 THEN <<-2, 1>>
        ELSE IF i - 1 <= Len(js) THEN JobKey(js[i - 1])
        ELSE <<-1, i - 1 - Len(js)>>]

invertMap(m) ==
    [v \in Range(m) |-> CHOOSE k \in DOMAIN m : m[k] = v /\ \A k2 \in DOMAIN m : m[k2] = v => k2 <= k]

frameIndexOf(js, k) == 1 + Len(js) + k
jobIndexOf(js, key) == 1 + (CHOOSE x \in 1..Len(js) : JobKey(js[x]) = key)

IsFrameIndex(js, F, i) == i > 1 + Len(js) /\ i <= 1 + Len(js) + F
IsJobIndex(js, i) == i >= 2 /\ i <= 1 + Len(js)

buildCapacityMap(ts, js, V, f, F) ==
    LET n == numNodesOf(js, F)
    IN  [u \in 0..(n - 1) |-> [v \in 0..(n - 1) |->
            IF u = sourceIndex /\ IsFrameIndex(js, F, v) THEN f
            ELSE IF IsJobIndex(js, u) /\ v = sinkIndex
                 THEN intWcet(getTaskById(ts, js[u - 1].task))
            ELSE IF IsFrameIndex(js, F, u) /\ IsJobIndex(js, v)
                    /\ (u - 1 - Len(js)) \in Range(V[JobKey(js[v - 1])]) THEN f
            ELSE 0]]

buildNeighbors(js, V, F) ==
    LET n == numNodesOf(js, F)
    IN  [u \in 0..(n - 1) |->
            IF u = sourceIndex THEN [k \in 1..F |-> frameIndexOf(js, k)]
            ELSE IF u = sinkIndex THEN [x \in 1..Len(js) |-> 1 + x]
            ELSE IF IsJobIndex(js, u)
                 THEN <<sinkIndex>> \o [x \in 1..Len(V[JobKey(js[u - 1])]) |->
                                           frameIndexOf(js, V[JobKey(js[u - 1])][x])]
            ELSE <<sourceIndex>> \o
                 SelectSeq([x \in 1..Len(js) |-> 1 + x],
                           LAMBDA ji : (u - 1 - Len(js)) \in Range(V[JobKey(js[ji - 1])]))]

zeroMatrix(n) == [u \in 0..(n - 1) |-> [v \in 0..(n - 1) |-> 0]]

\* ------------------------------------------------------------------------
\* Edmonds-Karp
\* ------------------------------------------------------------------------
RECURSIVE scanNeighborsForwardOnly(_, _, _, _, _, _)
scanNeighborsForwardOnly(capacity, flows, u, nb, end, st) ==
    IF st.found \/ Len(nb) = 0 THEN st
    ELSE LET v == Head(nb)
         IN  IF capacity[u][v] > 0 /\ capacity[u][v] - flows[u][v] > 0 /\ st.parents[v] = -1
             THEN LET p2 == [st.parents EXCEPT ![v] = u]
                      m2 == [st.M EXCEPT ![v] = Min(st.M[u], capacity[u][v] - flows[u][v])]
                  IN  IF v # end
                      THEN scanNeighborsForwardOnly(capacity, flows, u, Tail(nb), end,
                                         [parents |-> p2, M |-> m2,
                                          queue |-> Append(st.queue, v), found |-> FALSE,
                                          enqueued |-> Append(st.enqueued, v)])
                      ELSE [parents |-> p2, M |-> m2, queue |-> st.queue, found |-> TRUE,
                            enqueued |-> st.enqueued]
             ELSE scanNeighborsForwardOnly(capacity, flows, u, Tail(nb), end, st)

RECURSIVE scanNeighborsNoBottleneck(_, _, _, _, _, _)
scanNeighborsNoBottleneck(capacity, flows, u, nb, end, st) ==
    IF st.found \/ Len(nb) = 0 THEN st
    ELSE LET v == Head(nb)
         IN  IF capacity[u][v] - flows[u][v] > 0 /\ st.parents[v] = -1
             THEN LET p2 == [st.parents EXCEPT ![v] = u]
                      m2 == [st.M EXCEPT ![v] = capacity[u][v] - flows[u][v]]
                  IN  IF v # end
                      THEN scanNeighborsNoBottleneck(capacity, flows, u, Tail(nb), end,
                                         [parents |-> p2, M |-> m2,
                                          queue |-> Append(st.queue, v), found |-> FALSE,
                                          enqueued |-> Append(st.enqueued, v)])
                      ELSE [parents |-> p2, M |-> m2, queue |-> st.queue, found |-> TRUE,
                            enqueued |-> st.enqueued]
             ELSE scanNeighborsNoBottleneck(capacity, flows, u, Tail(nb), end, st)

\* The record st holds the locals of breadthFirstSearch (parents, M, queue); found says
\* that the function has returned from inside the loop, and enqueued lists, as history,
\* every vertex appended to the queue so far.
RECURSIVE scanNeighbors(_, _, _, _, _, _)
scanNeighbors(capacity, flows, u, nb, end, st) ==
    IF st.found \/ Len(nb) = 0 THEN st
    ELSE LET v == Head(nb)
         IN  IF capacity[u][v] - flows[u][v] > 0 /\ st.parents[v] = -1
             THEN LET p2 == [st.parents EXCEPT ![v] = u]
                      m2 == [st.M EXCEPT ![v] = Min(st.M[u], capacity[u][v] - flows[u][v])]
                  IN  IF v # end
                      THEN scanNeighbors(capacity, flows, u, Tail(nb), end,
                                         [parents |-> p2, M |-> m2,
                                          queue |-> Append(st.queue, v), found |-> FALSE,
                                          enqueued |-> Append(st.enqueued, v)])
                      ELSE [parents |-> p2, M |-> m2, queue |-> st.queue, found |-> TRUE,
                            enqueued |-> st.enqueued]
             ELSE scanNeighbors(capacity, flows, u, Tail(nb), end, st)

RECURSIVE bfsLoop(_, _, _, _, _)
bfsLoop(capacity, nbrs, flows, end, st) ==
    IF st.found THEN [max |-> st.M[end], parents |-> st.parents, enqueued |-> st.enqueued]
    ELSE IF Len(st.queue) = 0 THEN [max |-> 0, parents |-> st.parents, enqueued |-> st.enqueued]
    ELSE LET u == Head(st.queue)
         IN  bfsLoop(capacity, nbrs, flows, end,
                     scanNeighbors(capacity, flows, u, nbrs[u], end,
                                   [st EXCEPT !.queue = Tail(st.queue)]))

breadthFirstSearch(capacity, nbrs, flows, start, end) ==
    LET n == Cardinality(DOMAIN capacity)
    IN  bfsLoop(capacity, nbrs, flows, end,
                [parents |-> [i \in 0..(n - 1) |-> IF i = start THEN -2 ELSE -1],
                 M |-> [i \in 0..(n - 1) |-> IF i = start THEN Infinity ELSE 0],
                 queue |-> <<start>>, found |-> FALSE, enqueued |-> <<start>>])

RECURSIVE augmentPathForwardOnly(_, _, _, _, _)
augmentPathForwardOnly(flows, parent, max, v, start) ==
    IF v = start THEN flows
    ELSE LET u == parent[v]
             f1 == [flows EXCEPT ![u][v] = @ + max]
         IN  augmentPathForwardOnly(f1, parent, max, u, start)

RECURSIVE augmentPathBackwards(_, _, _, _, _)
augmentPathBackwards(flows, parent, max, v, start) ==
    IF v = start THEN flows
    ELSE LET u == parent[v]
             f1 == [flows EXCEPT ![u][v] = @ - max]
             f2 == [f1 EXCEPT ![v][u] = @ + max]
         IN  augmentPathBackwards(f2, parent, max, u, start)

RECURSIVE augmentPath(_, _, _, _, _)
augmentPath(flows, parent, max, v, start) ==
    IF v = start THEN flows
    ELSE LET u == parent[v]
             f1 == [flows EXCEPT ![u][v] = @ + max]
             f2 == [f1 EXCEPT ![v][u] = @ - max]
         IN  augmentPath(f2, parent, max, u, start)

\* ------------------------------------------------------------------------
\* Best-fit-descent repair
\* ------------------------------------------------------------------------
indexSeq(n) == [x \in 1..n |-> x - 1]

assignedFrameIndicesNonZero(flows, jobIndex) ==
    SelectSeq(indexSeq(Cardinality(DOMAIN flows)), LAMBDA i : flows[i][jobIndex] # 0)

assignedFrameIndices(flows, jobIndex) ==
    SelectSeq(indexSeq(Cardinality(DOMAIN flows)), LAMBDA i : flows[i][jobIndex] > 0)

preemptedJobIndicesOverTwo(js, flows) ==
    SelectSeq([x \in 1..Len(js) |-> 1 + x],
              LAMBDA ji : Len(assignedFrameIndices(flows, ji)) > 2)

\* Keys of preemptedJobToFrames, in job insertion order.
preemptedJobIndices(js, flows) ==
    SelectSeq([x \in 1..Len(js) |-> 1 + x],
              LAMBDA ji : Len(assignedFrameIndices(flows, ji)) > 1)

RECURSIVE resetFramesKeepSource(_, _, _)
resetFramesKeepSource(flows, jobIndex, frameIndices) ==
    IF Len(frameIndices) = 0 THEN flows
    ELSE LET frameIndex == Head(frameIndices)
             curFlow == flows[frameIndex][jobIndex]
             f1 == [flows EXCEPT ![frameIndex][jobIndex] = 0]
             f3 == [f1 EXCEPT ![jobIndex][sinkIndex] = @ - curFlow]
         IN  resetFramesKeepSource(f3, jobIndex, Tail(frameIndices))

RECURSIVE resetFrames(_, _, _)
resetFrames(flows, jobIndex, frameIndices) ==
    IF Len(frameIndices) = 0 THEN flows
    ELSE LET frameIndex == Head(frameIndices)
             curFlow == flows[frameIndex][jobIndex]
             f1 == [flows EXCEPT ![frameIndex][jobIndex] = 0]
             f2 == [f1 EXCEPT ![sourceIndex][frameIndex] = @ - curFlow]
             f3 == [f2 EXCEPT ![jobIndex][sinkIndex] = @ - curFlow]
         IN  resetFrames(f3, jobIndex, Tail(frameIndices))

RECURSIVE resetPreempted(_, _, _)
resetPreempted(flows, jobIndices, original) ==
    IF Len(jobIndices) = 0 THEN flows
    ELSE resetPreempted(
            resetFrames(flows, Head(jobIndices), assignedFrameIndices(original, Head(jobIndices))),
            Tail(jobIndices), original)

sortedPreemptedJobIdsByTaskId(ts, js, jobIndices) ==
    LET pairs == [x \in 1..Len(jobIndices) |->
                    <<js[jobIndices[x] - 1].task, jobIndices[x]>>]
        sorted == Items(SortPairs(pairs))
    IN  [x \in 1..Len(sorted) |-> JobKey(js[sorted[x] - 1])]

\* sorted(preempted keys, key = period of the job's task), as node ids.
sortedPreemptedJobIds(ts, js, jobIndices) ==
    LET pairs == [x \in 1..Len(jobIndices) |->
                    <<JobPeriod(ts, js[jobIndices[x] - 1]), jobIndices[x]>>]
        sorted == Items(SortPairs(pairs))
    IN  [x \in 1..Len(sorted) |-> JobKey(js[sorted[x] - 1])]

residual(capacity, flows, i) == capacity[sourceIndex][i] - flows[sourceIndex][i]

bfdCandidatesNoCapacity(capacity, flows, js, validFrames, wcet) ==
    LET frameIndices == [x \in 1..Len(validFrames) |-> frameIndexOf(js, validFrames[x])]
        pairs == [x \in 1..Len(frameIndices) |->
                    <<residual(capacity, flows, frameIndices[x]), frameIndices[x]>>]
    IN  Items(SortPairs(pairs))

bfdCandidatesAnyFrame(capacity, flows, js, validFrames, wcet) ==
    LET F == Cardinality(DOMAIN flows) - Len(js) - 2
        frameIndices == [x \in 1..F |-> frameIndexOf(js, x)]
        fitting == SelectSeq(frameIndices, LAMBDA i : residual(capacity, flows, i) >= wcet)
        pairs == [x \in 1..Len(fitting) |-> <<residual(capacity, flows, fitting[x]), fitting[x]>>]
    IN  Items(SortPairs(pairs))

bfdCandidatesFirstFit(capacity, flows, js, validFrames, wcet) ==
    LET frameIndices == [x \in 1..Len(validFrames) |-> frameIndexOf(js, validFrames[x])]
    IN  SelectSeq(frameIndices, LAMBDA i : residual(capacity, flows, i) >= wcet)

bfdCandidates(capacity, flows, js, validFrames, wcet) ==
    LET frameIndices == [x \in 1..Len(validFrames) |-> frameIndexOf(js, validFrames[x])]
        fitting == SelectSeq(frameIndices, LAMBDA i : residual(capacity, flows, i) >= wcet)
        pairs == [x \in 1..Len(fitting) |-> <<residual(capacity, flows, fitting[x]), fitting[x]>>]
    IN  Items(SortPairs(pairs))

bfdAssign(flows, assignedFrameIndex, jobIndex, wcet) ==
    LET f1 == [flows EXCEPT ![sourceIndex][assignedFrameIndex] = @ + wcet]
        f2 == [f1 EXCEPT ![assignedFrameIndex][jobIndex] = @ + wcet]
    IN  [f2 EXCEPT ![jobIndex][sinkIndex] = @ + wcet]

\* intervalToJobs of the flow solver: per frame, the jobs with positive flow
\* from the frame's vertex, in vertex-index order.
flowIntervalToJobs(js, flows, idToNode, F) ==
    [k \in 1..F |->
        LET row == flows[frameIndexOf(js, k)]
            hit == SelectSeq(indexSeq(Cardinality(DOMAIN row)), LAMBDA i : row[i] > 0)
        IN  [x \in 1..Len(hit) |-> [task |-> idToNode[hit[x]][1], id |-> idToNode[hit[x]][2]]]]

\* ------------------------------------------------------------------------
\* ILP formulation (the MIP engine may return any feasible point)
\* ------------------------------------------------------------------------
RECURSIVE ilpChoices(_, _)
ilpChoices(js, V) ==
    IF Len(js) = 0 THEN {<<>>}
    ELSE {<<k>> \o rest : k \in Range(V[JobKey(Head(js))]), rest \in ilpChoices(Tail(js), V)}

frameWork(ts, js, a, k) ==
    SumSeq([x \in 1..Len(js) |-> IF a[x] = k THEN JobWcet(ts, js[x]) ELSE 0])

ilpSolutionsNoCapacity(ts, js, V, f, F) == ilpChoices(js, V)

ilpSolutions(ts, js, V, f, F) ==
    {a \in ilpChoices(js, V) : \A k \in 1..F : frameWork(ts, js, a, k) <= f}

ilpIntervalToJobs(js, a, F) ==
    [k \in 1..F |->
        LET hit == SelectSeq([x \in 1..Len(js) |-> x], LAMBDA x : a[x] = k)
        IN  [x \in 1..Len(hit) |-> js[hit[x]]]]

\* ------------------------------------------------------------------------
\* Schedule intervals, post-processing and validation
\* ------------------------------------------------------------------------
initialize(start, taskId, jobId, didPreemptPrevious) ==
    [startTime |-> start, taskId |-> taskId, jobId |-> jobId,
     didPreemptPrevious |-> didPreemptPrevious, endTime |-> -1, jobCompleted |-> FALSE]

jobInterval(start, job) == initialize(start, job.task, job.id, FALSE)
idleInterval(start) == initialize(start, 0, -1, FALSE)

isIdle(interval) == interval.taskId = 0

updateIntervalEndAnyTask(interval, end, didJobComplete) ==
    [interval EXCEPT !.endTime = end, !.jobCompleted = didJobComplete]

updateIntervalEnd(interval, end, didJobComplete) ==
    [interval EXCEPT !.endTime = end,
                     !.jobCompleted = (didJobComplete /\ ~(interval.taskId = 0))]

postProcessIntervals(ivs, end) ==
    [i \in 1..Len(ivs) |->
        IF i < Len(ivs)
        THEN updateIntervalEnd(ivs[i], ivs[i + 1].startTime, ~ivs[i + 1].didPreemptPrevious)
        ELSE updateIntervalEnd(ivs[i], end, FALSE)]

sortByTaskId(jobList) ==
    Items(SortPairs([x \in 1..Len(jobList) |-> <<jobList[x].task, jobList[x]>>]))

\* The inner loop of buildSchedule over the jobs of one frame.
RECURSIVE placeJobs(_, _, _, _, _)
placeJobs(ts, jobList, t, ivs, frameEnd) ==
    IF Len(jobList) = 0 THEN [ok |-> TRUE, time |-> t, intervals |-> ivs]
    ELSE IF t > frameEnd THEN [ok |-> FALSE, time |-> t, intervals |-> ivs]
    ELSE placeJobs(ts, Tail(jobList), t + JobRemainingTime(ts, Head(jobList)),
                   Append(ivs, jobInterval(t, Head(jobList))), frameEnd)

ivKey(interval) == <<interval.taskId, interval.jobId>>

RECURSIVE wcetLoop(_, _, _, _)
wcetLoop(ts, ivs, x, durations) ==
    IF x > Len(ivs) THEN TRUE
    ELSE IF isIdle(ivs[x]) THEN wcetLoop(ts, ivs, x + 1, durations)
    ELSE LET key == ivKey(ivs[x])
             d2 == [durations EXCEPT ![key] = @ + (ivs[x].endTime - ivs[x].startTime)]
         IN  IF ivs[x].jobCompleted /\ d2[key] > getTaskById(ts, ivs[x].taskId).wcet
             THEN FALSE
             ELSE wcetLoop(ts, ivs, x + 1, d2)

RECURSIVE wcetLoopNoSum(_, _, _)
wcetLoopNoSum(ts, ivs, x) ==
    IF x > Len(ivs) THEN TRUE
    ELSE IF isIdle(ivs[x]) THEN wcetLoopNoSum(ts, ivs, x + 1)
    ELSE IF ivs[x].jobCompleted
            /\ (ivs[x].endTime - ivs[x].startTime) > getTaskById(ts, ivs[x].taskId).wcet
         THEN FALSE
         ELSE wcetLoopNoSum(ts, ivs, x + 1)

validateWcetsNoSum(ts, ivs) == wcetLoopNoSum(ts, ivs, 1)

validateWcets(ts, ivs) ==
    wcetLoop(ts, ivs, 1, [key \in {ivKey(ivs[x]) : x \in 1..Len(ivs)} |-> 0])

RECURSIVE deadlineLoop(_, _, _)
deadlineLoop(ts, ivs, x) ==
    IF x > Len(ivs) THEN TRUE
    ELSE IF isIdle(ivs[x]) THEN deadlineLoop(ts, ivs, x + 1)
    ELSE IF ivs[x].jobCompleted
            /\ JobDeadline(ts, [task |-> ivs[x].taskId, id |-> ivs[x].jobId]) < ivs[x].endTime
         THEN FALSE
         ELSE deadlineLoop(ts, ivs, x + 1)

RECURSIVE deadlineLoopAnyFlag(_, _, _)
deadlineLoopAnyFlag(ts, ivs, x) ==
    IF x > Len(ivs) THEN TRUE
    ELSE IF isIdle(ivs[x]) THEN deadlineLoopAnyFlag(ts, ivs, x + 1)
    ELSE IF JobDeadline(ts, [task |-> ivs[x].taskId, id |-> ivs[x].jobId]) < ivs[x].endTime
         THEN FALSE
         ELSE deadlineLoopAnyFlag(ts, ivs, x + 1)

validateDeadlinesAnyFlag(ts, ivs) == deadlineLoopAnyFlag(ts, ivs, 1)

validateDeadlines(ts, ivs) == deadlineLoop(ts, ivs, 1)

\* ------------------------------------------------------------------------
\* EdfPriorityQueue (edf.py): the queue is a list of jobs
\* ------------------------------------------------------------------------
indexSeqFrom1(n) == [x \in 1..n |-> x]

\* None, where a job is expected
NoJob == [task |-> 0, id |-> 0, releaseTime |-> 0, deadline |-> 0, remainingTime |-> 0]

\* a Job object of the queue, with the execution time it still needs
queuedJob(ts, job, remaining) ==
    [task |-> job.task, id |-> job.id, releaseTime |-> JobReleaseTime(ts, job),
     deadline |-> JobDeadline(ts, job), remainingTime |-> remaining]

\* Python's tuple comparison a < b for integer tuples of equal length
RECURSIVE tupleLess(_, _)
tupleLess(a, b) ==
    IF Len(a) = 0 THEN FALSE
    ELSE IF a[1] # b[1] THEN a[1] < b[1]
    ELSE tupleLess(Tail(a), Tail(b))

\* list.sort(key = ...) on <<key, item>> pairs: stable
RECURSIVE insertByTuple(_, _)
insertByTuple(x, s) ==
    IF Len(s) = 0 THEN <<x>>
    ELSE IF tupleLess(x[1], Head(s)[1]) THEN <<x>> \o s
    ELSE <<Head(s)>> \o insertByTuple(x, Tail(s))

RECURSIVE sortByTuple(_)
sortByTuple(s) ==
    IF Len(s) = 0 THEN <<>>
    ELSE insertByTuple(s[Len(s)], sortByTuple(SubSeq(s, 1, Len(s) - 1)))

\* EdfPriorityQueue._sortQueue
sortQueue(q) ==
    Items(sortByTuple([x \in 1..Len(q) |-> <<(<<q[x].deadline, q[x].task, q[x].id>>), q[x]>>]))

\* list.pop(i), positions counted from 1
popIndex(q, i) == SubSeq(q, 1, i - 1) \o SubSeq(q, i + 1, Len(q))

\* the filter of hpJobs in popPreemptingJob
isHigherPriority(j, t, job) ==
    /\ \/ j.deadline < job.deadline
       \/ j.deadline = job.deadline /\ j.task < job.task
    /\ j.releaseTime > t
    /\ j.releaseTime < t + job.remainingTime

popPreemptingJobFirstInQueue(q, t, job) ==
    IF job = NoJob THEN [ret |-> NoJob, jobs |-> q]
    ELSE LET hpJobs == SelectSeq(indexSeqFrom1(Len(q)), LAMBDA i : isHigherPriority(q[i], t, job))
         IN  IF Len(hpJobs) = 0 THEN [ret |-> NoJob, jobs |-> q]
             ELSE [ret |-> q[hpJobs[1]], jobs |-> popIndex(q, hpJobs[1])]

\* EdfPriorityQueue.popPreemptingJob: the returned job (NoJob for None) and the
\* queue left behind
popPreemptingJob(q, t, job) ==
    IF job = NoJob THEN [ret |-> NoJob, jobs |-> q]
    ELSE LET hpJobs == SelectSeq(indexSeqFrom1(Len(q)), LAMBDA i : isHigherPriority(q[i], t, job))
             sorted == Items(sortByTuple([x \in 1..Len(hpJobs) |->
                          <<(<<q[hpJobs[x]].releaseTime, q[hpJobs[x]].deadline,
                               q[hpJobs[x]].task>>), hpJobs[x]>>]))
         IN  IF Len(hpJobs) = 0 THEN [ret |-> NoJob, jobs |-> q]
             ELSE [ret |-> q[sorted[1]], jobs |-> popIndex(q, sorted[1])]

\* ------------------------------------------------------------------------
\* State
\* ------------------------------------------------------------------------
VARIABLES
    tasks,           \* taskSet.tasks, in insertion order
    jobs,            \* taskSet.jobs, in insertion order
    solver,          \* "none", "flow" (NetworkFlowScheduler) or "ilp" (IlpScheduler)
    pc,              \* position of the run
    result,          \* "pending", "Schedule", "None", "ValueError", "ZeroDivisionError"
    hyperPeriod, frameSize, numFrames, validFrameMap,
    indexToNodeId, nodeIdToIndex,
    capacityMap, neighbors, flowMap, maxFlow,
    jobIds,          \* the preempted jobs, in the order BFD handles them
    bfdNext,         \* position in jobIds of the next job BFD places
    intervalToJobs,  \* frame -> list of jobs
    startTime, endTime,    \* arguments of buildSchedule
    time, frame,           \* locals of buildSchedule
    intervals, schedStart, schedEnd,   \* the Schedule object
    wcetsValid, deadlinesValid,        \* "unset", "True", "False"
    calls,           \* number of buildSchedule calls made on this scheduler instance
    firstSchedule,   \* history: the intervals of the Schedule the first call returned
    pending,         \* run_test: the task sets of the folder not yet read
    schedulerIndex,  \* run_test: position in schedulers of the class being tested
    successCount,    \* run_test: results[name]["successCount"], per scheduler class
    priorityQueue,   \* EdfPriorityQueue.jobs
    previousJob,     \* the job argument of popPreemptingJob (NoJob for None)
    preemptor        \* the value popPreemptingJob returned (NoJob for None)

vars == <<tasks, jobs, solver, pc, result, hyperPeriod, frameSize, numFrames, validFrameMap,
          indexToNodeId, nodeIdToIndex, capacityMap, neighbors, flowMap, maxFlow,
          jobIds, bfdNext, intervalToJobs, startTime, endTime, time, frame,
          intervals, schedStart, schedEnd, wcetsValid, deadlinesValid, calls, firstSchedule,
          pending, schedulerIndex, successCount, priorityQueue, previousJob, preemptor>>

geometryVars == <<hyperPeriod, frameSize, numFrames, validFrameMap, indexToNodeId, nodeIdToIndex>>
networkVars == <<capacityMap, neighbors, flowMap, maxFlow>>
bfdVars == <<jobIds, bfdNext>>
argVars == <<startTime, endTime>>
scheduleVars == <<time, frame, intervals, schedStart, schedEnd>>
validationVars == <<wcetsValid, deadlinesValid>>
inputVars == <<tasks, jobs, solver>>
historyVars == <<calls, firstSchedule>>
harnessVars == <<pending, schedulerIndex, successCount>>
edfVars == <<priorityQueue, previousJob, preemptor>>

\* run_test([NetworkFlowScheduler, IlpScheduler])
schedulers == <<"flow", "ilp">>
noSuccesses == [name \in Range(schedulers) |-> 0]

StartTimes == {0, 1}
EndTimes(H) == {0, H - 1, H, H + 1}

Init ==
    /\ tasks \in TaskSets \cup RepairTaskSets
    /\ jobs = BuildJobs(tasks)
    /\ solver = "none"
    /\ pc = "new"
    /\ result = "pending"
    /\ hyperPeriod = 0 /\ frameSize = 0 /\ numFrames = 0
    /\ validFrameMap = <<>>
    /\ indexToNodeId = <<>> /\ nodeIdToIndex = <<>>
    /\ capacityMap = <<>> /\ neighbors = <<>> /\ flowMap = <<>> /\ maxFlow = 0
    /\ jobIds = <<>> /\ bfdNext = 1
    /\ intervalToJobs = <<>>
    /\ startTime = 0 /\ endTime = 0
    /\ time = 0 /\ frame = 0
    /\ intervals = <<>> /\ schedStart = 0 /\ schedEnd = 0
    /\ wcetsValid = "unset" /\ deadlinesValid = "unset"
    /\ calls = 0 /\ firstSchedule = <<>>
    /\ pending = <<>> /\ schedulerIndex = 1 /\ successCount = noSuccesses
    /\ priorityQueue = <<>> /\ previousJob = NoJob /\ preemptor = NoJob

\* ------------------------------------------------------------------------
\* Scheduler construction: __init__ of NetworkFlowScheduler / IlpScheduler
\* ------------------------------------------------------------------------
Construct(cls) ==
    /\ pc = "new"
    /\ solver' = cls
    /\ LET H == getHyperPeriod(tasks)
           f == getValidFrameSize(tasks, H)
       IN  /\ hyperPeriod' = H
           /\ IF f = 0
              THEN /\ result' = "ValueError"
                   /\ pc' = "failed"
                   /\ UNCHANGED <<frameSize, numFrames, validFrameMap, indexToNodeId, nodeIdToIndex>>
              ELSE /\ frameSize' = f
                   /\ numFrames' = H \div f
                   /\ validFrameMap' = buildValidFrameSet(tasks, jobs, f, H \div f)
                   /\ IF cls = "flow"
                      THEN /\ indexToNodeId' = makeIndexToNodeIdMap(jobs, H \div f)
                           /\ nodeIdToIndex' = invertMap(makeIndexToNodeIdMap(jobs, H \div f))
                      ELSE UNCHANGED <<indexToNodeId, nodeIdToIndex>>
                   /\ pc' = "ready"
                   /\ UNCHANGED result
    /\ UNCHANGED <<edfVars, harnessVars, historyVars, tasks, jobs, networkVars, bfdVars, intervalToJobs, argVars, scheduleVars,
                   validationVars>>

\* ------------------------------------------------------------------------
\* buildSchedule(startTime, endTime): entry
\* ------------------------------------------------------------------------
CallBuildSchedule(st, et) ==
    /\ pc = "ready"
    /\ startTime' = st
    /\ endTime' = et
    /\ calls' = calls + 1
    /\ pc' = "assign"
    /\ UNCHANGED <<edfVars, harnessVars, firstSchedule, inputVars, result, geometryVars, networkVars, bfdVars, intervalToJobs,
                   scheduleVars, validationVars>>

\* After _makeAssignmentDecision returned a map: time = startTime; schedule.startTime = time.
EnterFrames(map) ==
    /\ intervalToJobs' = map
    /\ time' = startTime
    /\ schedStart' = startTime
    /\ frame' = 1
    /\ pc' = "frames"

\* ------------------------------------------------------------------------
\* NetworkFlowScheduler._makeAssignmentDecision
\* ------------------------------------------------------------------------
\* runFlowAlgorithm: build capacityMap and neighbors; edmondsKarp starts from zero flow.
RunFlowBuild ==
    /\ pc = "assign" /\ solver = "flow"
    /\ capacityMap' = buildCapacityMap(tasks, jobs, validFrameMap, frameSize, numFrames)
    /\ neighbors' = buildNeighbors(jobs, validFrameMap, numFrames)
    /\ flowMap' = zeroMatrix(numNodesOf(jobs, numFrames))
    /\ maxFlow' = 0
    /\ pc' = "ek"
    /\ UNCHANGED <<edfVars, harnessVars, historyVars, inputVars, result, geometryVars, bfdVars, intervalToJobs, argVars,
                   scheduleVars, validationVars>>

\* One iteration of edmondsKarp's main loop with a non-zero bottleneck.
Augment ==
    /\ pc = "ek"
    /\ LET bfs == breadthFirstSearch(capacityMap, neighbors, flowMap, sourceIndex, sinkIndex)
       IN  /\ bfs.max # 0
           /\ maxFlow' = maxFlow + bfs.max
           /\ flowMap' = augmentPath(flowMap, bfs.parents, bfs.max, sinkIndex, sourceIndex)
    /\ UNCHANGED <<edfVars, harnessVars, historyVars, inputVars, pc, result, geometryVars, capacityMap, neighbors, bfdVars,
                   intervalToJobs, argVars, scheduleVars, validationVars>>

\* sum([job.task.wcet for job in self.taskSet.jobs]), in half units
totalWorkNeeded(ts, js) ==
    SumSeq([x \in 1..Len(js) |-> wcetHalves(getTaskById(ts, js[x].task))])

flowAssertionSkipped(mf, ts, js) == TRUE

\* assert self.maxFlow == totalWorkNeeded
flowAssertion(mf, ts, js) == 2 * mf = totalWorkNeeded(ts, js)

\* edmondsKarp returns (bottleneck 0); the assertion of runFlowAlgorithm; the first
\* NetworkDisplay of _makeAssignmentDecision.
FlowCheck ==
    /\ pc = "ek"
    /\ breadthFirstSearch(capacityMap, neighbors, flowMap, sourceIndex, sinkIndex).max = 0
    /\ IF ~flowAssertion(maxFlow, tasks, jobs)
       THEN /\ result' = "None" /\ pc' = "done"
       ELSE IF numFrames - 1 = 0 \/ Len(jobs) - 1 = 0
       THEN /\ result' = "ZeroDivisionError" /\ pc' = "done"
       ELSE /\ pc' = "bfd" /\ UNCHANGED result
    /\ UNCHANGED <<edfVars, harnessVars, historyVars, inputVars, geometryVars, networkVars, bfdVars, intervalToJobs, argVars,
                   scheduleVars, validationVars>>

\* runBestFitDescentApproximation: find the split jobs, zero their flow, order them.
BfdReset ==
    /\ pc = "bfd"
    /\ LET pre == preemptedJobIndices(jobs, flowMap)
       IN  /\ flowMap' = resetPreempted(flowMap, pre, flowMap)
           /\ jobIds' = sortedPreemptedJobIds(tasks, jobs, pre)
    /\ bfdNext' = 1
    /\ pc' = "place"
    /\ UNCHANGED <<edfVars, harnessVars, historyVars, inputVars, result, geometryVars, capacityMap, neighbors, maxFlow,
                   intervalToJobs, argVars, scheduleVars, validationVars>>

\* One iteration of the placement loop of runBestFitDescentApproximation.
BfdPlace ==
    /\ pc = "place"
    /\ bfdNext <= Len(jobIds)
    /\ LET jobId == jobIds[bfdNext]
           jobIndex == nodeIdToIndex[jobId]
           wcet == getTaskById(tasks, jobId[1]).wcet
           cands == bfdCandidates(capacityMap, flowMap, jobs, validFrameMap[jobId], wcet)
       IN  IF Len(cands) > 0
           THEN /\ flowMap' = bfdAssign(flowMap, cands[1], jobIndex, wcet)
                /\ bfdNext' = bfdNext + 1
                /\ UNCHANGED <<pc, result>>
           ELSE /\ result' = "None" /\ pc' = "done"
                /\ UNCHANGED <<flowMap, bfdNext>>
    /\ UNCHANGED <<edfVars, harnessVars, historyVars, inputVars, geometryVars, capacityMap, neighbors, maxFlow, jobIds,
                   intervalToJobs, argVars, scheduleVars, validationVars>>

\* The map built at the end of _makeAssignmentDecision, handed to buildSchedule.
FlowOutput ==
    /\ pc = "place"
    /\ bfdNext > Len(jobIds)
    /\ EnterFrames(flowIntervalToJobs(jobs, flowMap, indexToNodeId, numFrames))
    /\ UNCHANGED <<edfVars, harnessVars, historyVars, inputVars, result, geometryVars, networkVars, bfdVars, argVars,
                   intervals, schedEnd, validationVars>>

\* ------------------------------------------------------------------------
\* IlpScheduler._makeAssignmentDecision
\* ------------------------------------------------------------------------
IlpSolve ==
    /\ pc = "assign" /\ solver = "ilp"
    /\ LET sols == ilpSolutions(tasks, jobs, validFrameMap, frameSize, numFrames)
       IN  IF sols = {}
           THEN /\ result' = "None" /\ pc' = "done"
                /\ UNCHANGED <<intervalToJobs, time, schedStart, frame>>
           ELSE /\ \E a \in sols : EnterFrames(ilpIntervalToJobs(jobs, a, numFrames))
                /\ UNCHANGED result
    /\ UNCHANGED <<edfVars, harnessVars, historyVars, inputVars, geometryVars, networkVars, bfdVars, argVars,
                   intervals, schedEnd, validationVars>>

\* ------------------------------------------------------------------------
\* buildSchedule: the frame loop, the final interval, post-processing
\* ------------------------------------------------------------------------
BuildFrame ==
    /\ pc = "frames"
    /\ frame <= numFrames
    /\ LET sorted == sortByTaskId(intervalToJobs[frame])
           frameEnd == frame * frameSize
           placed == placeJobs(tasks, sorted, time, intervals, frameEnd)
       IN  /\ intervalToJobs' = [intervalToJobs EXCEPT ![frame] = sorted]
           /\ IF ~placed.ok
              THEN /\ intervals' = placed.intervals
                   /\ time' = placed.time
                   /\ result' = "None" /\ pc' = "done"
                   /\ UNCHANGED frame
              ELSE /\ IF placed.time < frameEnd
                      THEN /\ intervals' = Append(placed.intervals, idleInterval(placed.time))
                           /\ time' = frameEnd
                      ELSE /\ intervals' = placed.intervals
                           /\ time' = placed.time
                   /\ frame' = frame + 1
                   /\ UNCHANGED <<pc, result>>
    /\ UNCHANGED <<edfVars, harnessVars, historyVars, inputVars, geometryVars, networkVars, bfdVars, argVars, schedStart, schedEnd,
                   validationVars>>

latestDeadline(ts, js) ==
    CHOOSE d \in {JobDeadline(ts, js[x]) : x \in 1..Len(js)} :
        \A x \in 1..Len(js) : JobDeadline(ts, js[x]) <= d

finalInterval(t, et) == idleInterval(et)

Finalize ==
    /\ pc = "frames"
    /\ frame > numFrames
    /\ LET adjustedEndTime == Max(latestDeadline(tasks, jobs), endTime)
       IN  /\ intervals' = postProcessIntervals(Append(intervals, finalInterval(time, endTime)),
                                                adjustedEndTime)
           /\ schedEnd' = adjustedEndTime
    /\ firstSchedule' = IF calls = 1 THEN intervals' ELSE firstSchedule
    /\ result' = "Schedule"
    /\ pc' = "built"
    /\ UNCHANGED <<edfVars, harnessVars, calls, inputVars, geometryVars, networkVars, bfdVars, intervalToJobs, argVars,
                   time, frame, schedStart, validationVars>>

\* ------------------------------------------------------------------------
\* Schedule validation on a returned Schedule
\* ------------------------------------------------------------------------
Validate ==
    /\ pc = "built"
    /\ wcetsValid' = IF validateWcets(tasks, intervals) THEN "True" ELSE "False"
    /\ deadlinesValid' = IF validateDeadlines(tasks, intervals) THEN "True" ELSE "False"
    /\ pc' = "validated"
    /\ UNCHANGED <<edfVars, harnessVars, historyVars, inputVars, result, geometryVars, networkVars, bfdVars, intervalToJobs,
                   argVars, scheduleVars>>

Next ==
    \/ \E cls \in {"flow", "ilp"} : Construct(cls)
    \/ \E st \in StartTimes : \E et \in EndTimes(hyperPeriod) : CallBuildSchedule(st, et)
    \/ RunFlowBuild
    \/ Augment
    \/ FlowCheck
    \/ BfdReset
    \/ BfdPlace
    \/ FlowOutput
    \/ IlpSolve
    \/ BuildFrame
    \/ Finalize
    \/ Validate

Spec == Init /\ [][Next]_vars

\* ------------------------------------------------------------------------
\* buildSchedule called again, with the same arguments, on the scheduler instance
\* that already returned a Schedule (self.schedule is created once, in __init__)
\* ------------------------------------------------------------------------
CallBuildScheduleAgain ==
    /\ pc \in {"built", "validated"}
    /\ result = "Schedule"
    /\ calls < MaxCalls
    /\ calls' = calls + 1
    /\ result' = "pending"
    /\ pc' = "assign"
    /\ UNCHANGED <<edfVars, harnessVars, inputVars, firstSchedule, geometryVars, networkVars, bfdVars, intervalToJobs,
                   argVars, scheduleVars, validationVars>>

RepeatTaskSets == {ts \in TaskSets : Len(BuildJobs(ts)) <= MaxBuilderJobs}

InitRepeat ==
    /\ tasks \in RepeatTaskSets
    /\ jobs = BuildJobs(tasks)
    /\ solver = "none"
    /\ pc = "new"
    /\ result = "pending"
    /\ hyperPeriod = 0 /\ frameSize = 0 /\ numFrames = 0
    /\ validFrameMap = <<>>
    /\ indexToNodeId = <<>> /\ nodeIdToIndex = <<>>
    /\ capacityMap = <<>> /\ neighbors = <<>> /\ flowMap = <<>> /\ maxFlow = 0
    /\ jobIds = <<>> /\ bfdNext = 1
    /\ intervalToJobs = <<>>
    /\ startTime = 0 /\ endTime = 0
    /\ time = 0 /\ frame = 0
    /\ intervals = <<>> /\ schedStart = 0 /\ schedEnd = 0
    /\ wcetsValid = "unset" /\ deadlinesValid = "unset"
    /\ calls = 0 /\ firstSchedule = <<>>
    /\ pending = <<>> /\ schedulerIndex = 1 /\ successCount = noSuccesses
    /\ priorityQueue = <<>> /\ previousJob = NoJob /\ preemptor = NoJob

NextRepeat ==
    \/ Next
    \/ CallBuildScheduleAgain

SpecRepeat == InitRepeat /\ [][NextRepeat]_vars

\* ------------------------------------------------------------------------
\* buildSchedule on its own: a subclass of CyclicSchedulerAlgorithm whose
\* _makeAssignmentDecision hands back an arbitrary frame -> job-list map
\* ------------------------------------------------------------------------
BuilderTaskSets == {ts \in TaskSets : Len(BuildJobs(ts)) <= MaxBuilderJobs}

fixedIntervalToJobs(js, a, F) ==
    [k \in 1..F |->
        LET hit == SelectSeq([x \in 1..Len(js) |-> x], LAMBDA x : a[x] = k)
        IN  [x \in 1..Len(hit) |-> js[hit[x]]]]

FixedSolve ==
    /\ pc = "assign" /\ solver = "fixed"
    /\ \E a \in [1..Len(jobs) -> 1..numFrames] :
          EnterFrames(fixedIntervalToJobs(jobs, a, numFrames))
    /\ UNCHANGED <<edfVars, harnessVars, historyVars, inputVars, result, geometryVars, networkVars, bfdVars, argVars,
                   intervals, schedEnd, validationVars>>

InitBuilder ==
    /\ tasks \in BuilderTaskSets
    /\ jobs = BuildJobs(tasks)
    /\ solver = "none"
    /\ pc = "new"
    /\ result = "pending"
    /\ hyperPeriod = 0 /\ frameSize = 0 /\ numFrames = 0
    /\ validFrameMap = <<>>
    /\ indexToNodeId = <<>> /\ nodeIdToIndex = <<>>
    /\ capacityMap = <<>> /\ neighbors = <<>> /\ flowMap = <<>> /\ maxFlow = 0
    /\ jobIds = <<>> /\ bfdNext = 1
    /\ intervalToJobs = <<>>
    /\ startTime = 0 /\ endTime = 0
    /\ time = 0 /\ frame = 0
    /\ intervals = <<>> /\ schedStart = 0 /\ schedEnd = 0
    /\ wcetsValid = "unset" /\ deadlinesValid = "unset"
    /\ calls = 0 /\ firstSchedule = <<>>
    /\ pending = <<>> /\ schedulerIndex = 1 /\ successCount = noSuccesses
    /\ priorityQueue = <<>> /\ previousJob = NoJob /\ preemptor = NoJob

NextBuilder ==
    \/ Construct("fixed")
    \/ \E st \in StartTimes : \E et \in EndTimes(hyperPeriod) : CallBuildSchedule(st, et)
    \/ FixedSolve
    \/ BuildFrame
    \/ Finalize
    \/ Validate

SpecBuilder == InitBuilder /\ [][NextBuilder]_vars

\* ------------------------------------------------------------------------
\* The validators on their own: Schedule(data, taskSet) parsed from schedule
\* data (possibly a preemptive schedule from elsewhere), then validated
\* ------------------------------------------------------------------------
ValidatorTaskSets == {<<Task(1, 2, 1, 2), Task(2, 4, 2, 4)>>}

\* One entry of the "intervals" list of the schedule data.
IntervalData(ts, js) ==
    {[timeInstant |-> t, taskId |-> key[1], jobId |-> key[2], didPreempt |-> b] :
        t \in 0..(getHyperPeriod(ts) + 1),
        key \in {<<0, -1>>} \cup {JobKey(js[x]) : x \in 1..Len(js)},
        b \in BOOLEAN}

ScheduleData(ts, js) ==
    UNION {{d \in [1..n -> IntervalData(ts, js)] :
              \A x \in 1..(n - 1) : d[x].timeInstant <= d[x + 1].timeInstant} :
           n \in 1..MaxIntervals}

\* ScheduleInterval.__init__(intervalDict)
parsedInterval(d) ==
    [startTime |-> d.timeInstant, taskId |-> d.taskId, jobId |-> d.jobId,
     didPreemptPrevious |-> d.didPreempt, endTime |-> -1, jobCompleted |-> FALSE]

\* Schedule.__init__ / parseJson / parseDataToIntervals
ParseSchedule ==
    /\ pc = "new"
    /\ \E data \in ScheduleData(tasks, jobs) :
          \E et \in {getHyperPeriod(tasks), getHyperPeriod(tasks) + 1} :
             /\ intervals' = postProcessIntervals(
                                 [x \in 1..Len(data) |-> parsedInterval(data[x])], et)
             /\ schedEnd' = et
    /\ schedStart' = 0
    /\ result' = "Parsed"
    /\ pc' = "built"
    /\ UNCHANGED <<edfVars, harnessVars, historyVars, inputVars, geometryVars, networkVars, bfdVars, intervalToJobs, argVars,
                   time, frame, validationVars>>

InitValidator ==
    /\ tasks \in ValidatorTaskSets
    /\ jobs = BuildJobs(tasks)
    /\ solver = "none"
    /\ pc = "new"
    /\ result = "pending"
    /\ hyperPeriod = 0 /\ frameSize = 0 /\ numFrames = 0
    /\ validFrameMap = <<>>
    /\ indexToNodeId = <<>> /\ nodeIdToIndex = <<>>
    /\ capacityMap = <<>> /\ neighbors = <<>> /\ flowMap = <<>> /\ maxFlow = 0
    /\ jobIds = <<>> /\ bfdNext = 1
    /\ intervalToJobs = <<>>
    /\ startTime = 0 /\ endTime = 0
    /\ time = 0 /\ frame = 0
    /\ intervals = <<>> /\ schedStart = 0 /\ schedEnd = 0
    /\ wcetsValid = "unset" /\ deadlinesValid = "unset"
    /\ calls = 0 /\ firstSchedule = <<>>
    /\ pending = <<>> /\ schedulerIndex = 1 /\ successCount = noSuccesses
    /\ priorityQueue = <<>> /\ previousJob = NoJob /\ preemptor = NoJob

NextValidator ==
    \/ ParseSchedule
    \/ Validate

SpecValidator == InitValidator /\ [][NextValidator]_vars

\* The same runs, started on the literal scenario task sets.
InitScenarios ==
    /\ tasks \in ScenarioTaskSets
    /\ jobs = BuildJobs(tasks)
    /\ solver = "none"
    /\ pc = "new"
    /\ result = "pending"
    /\ hyperPeriod = 0 /\ frameSize = 0 /\ numFrames = 0
    /\ validFrameMap = <<>>
    /\ indexToNodeId = <<>> /\ nodeIdToIndex = <<>>
    /\ capacityMap = <<>> /\ neighbors = <<>> /\ flowMap = <<>> /\ maxFlow = 0
    /\ jobIds = <<>> /\ bfdNext = 1
    /\ intervalToJobs = <<>>
    /\ startTime = 0 /\ endTime = 0
    /\ time = 0 /\ frame = 0
    /\ intervals = <<>> /\ schedStart = 0 /\ schedEnd = 0
    /\ wcetsValid = "unset" /\ deadlinesValid = "unset"
    /\ calls = 0 /\ firstSchedule = <<>>
    /\ pending = <<>> /\ schedulerIndex = 1 /\ successCount = noSuccesses
    /\ priorityQueue = <<>> /\ previousJob = NoJob /\ preemptor = NoJob

SpecScenarios == InitScenarios /\ [][Next]_vars

\* The same runs, started on task sets with a relative deadline beyond the period.
InitWideDeadline ==
    /\ tasks \in WideDeadlineTaskSets
    /\ jobs = BuildJobs(tasks)
    /\ solver = "none"
    /\ pc = "new"
    /\ result = "pending"
    /\ hyperPeriod = 0 /\ frameSize = 0 /\ numFrames = 0
    /\ validFrameMap = <<>>
    /\ indexToNodeId = <<>> /\ nodeIdToIndex = <<>>
    /\ capacityMap = <<>> /\ neighbors = <<>> /\ flowMap = <<>> /\ maxFlow = 0
    /\ jobIds = <<>> /\ bfdNext = 1
    /\ intervalToJobs = <<>>
    /\ startTime = 0 /\ endTime = 0
    /\ time = 0 /\ frame = 0
    /\ intervals = <<>> /\ schedStart = 0 /\ schedEnd = 0
    /\ wcetsValid = "unset" /\ deadlinesValid = "unset"
    /\ calls = 0 /\ firstSchedule = <<>>
    /\ pending = <<>> /\ schedulerIndex = 1 /\ successCount = noSuccesses
    /\ priorityQueue = <<>> /\ previousJob = NoJob /\ preemptor = NoJob

SpecWideDeadline == InitWideDeadline /\ [][Next]_vars

\* ------------------------------------------------------------------------
\* The flow solver on task sets with a fractional WCET
\* ------------------------------------------------------------------------
InitFractional ==
    /\ tasks \in FractionalTaskSets
    /\ jobs = BuildJobs(tasks)
    /\ solver = "none"
    /\ pc = "new"
    /\ result = "pending"
    /\ hyperPeriod = 0 /\ frameSize = 0 /\ numFrames = 0
    /\ validFrameMap = <<>>
    /\ indexToNodeId = <<>> /\ nodeIdToIndex = <<>>
    /\ capacityMap = <<>> /\ neighbors = <<>> /\ flowMap = <<>> /\ maxFlow = 0
    /\ jobIds = <<>> /\ bfdNext = 1
    /\ intervalToJobs = <<>>
    /\ startTime = 0 /\ endTime = 0
    /\ time = 0 /\ frame = 0
    /\ intervals = <<>> /\ schedStart = 0 /\ schedEnd = 0
    /\ wcetsValid = "unset" /\ deadlinesValid = "unset"
    /\ calls = 0 /\ firstSchedule = <<>>
    /\ pending = <<>> /\ schedulerIndex = 1 /\ successCount = noSuccesses
    /\ priorityQueue = <<>> /\ previousJob = NoJob /\ preemptor = NoJob

NextFractional ==
    \/ Construct("flow")
    \/ CallBuildSchedule(0, hyperPeriod)
    \/ RunFlowBuild
    \/ Augment
    \/ FlowCheck

SpecFractional == InitFractional /\ [][NextFractional]_vars

\* ------------------------------------------------------------------------
\* edmondsKarp(capacity, neighbors, 0, 1) on its own, on small networks
\* ------------------------------------------------------------------------
MaxCapacity == 2

\* Vertices 0 (start) and 1 (end), two vertices next to the start and two next to the
\* end; the edges that may carry capacity.
NumVertices == 6
EkEdges == {<<0, 2>>, <<0, 3>>, <<2, 4>>, <<2, 5>>, <<3, 4>>, <<3, 5>>, <<4, 1>>, <<5, 1>>,
            <<4, 2>>, <<0, 1>>}

ekCapacity(c) ==
    [u \in 0..(NumVertices - 1) |-> [v \in 0..(NumVertices - 1) |->
        IF <<u, v>> \in EkEdges THEN c[<<u, v>>] ELSE 0]]

\* Each edge is appended to the neighbor lists of both its ends.
ekNeighbors(capacity) ==
    [u \in DOMAIN capacity |->
        SelectSeq(indexSeq(Cardinality(DOMAIN capacity)),
                  LAMBDA v : capacity[u][v] > 0 \/ capacity[v][u] > 0)]

\* No flow value of these networks reaches this number.
ekFlowLimit == Cardinality(EkEdges) * MaxCapacity + 1

InitEdmondsKarp ==
    /\ \E c \in [EkEdges -> 0..MaxCapacity] :
          /\ capacityMap = ekCapacity(c)
          /\ neighbors = ekNeighbors(ekCapacity(c))
    /\ flowMap = zeroMatrix(NumVertices)
    /\ maxFlow = 0
    /\ pc = "ek"
    /\ tasks = <<>> /\ jobs = <<>>
    /\ solver = "none"
    /\ result = "pending"
    /\ hyperPeriod = 0 /\ frameSize = 0 /\ numFrames = 0
    /\ validFrameMap = <<>>
    /\ indexToNodeId = <<>> /\ nodeIdToIndex = <<>>
    /\ jobIds = <<>> /\ bfdNext = 1
    /\ intervalToJobs = <<>>
    /\ startTime = 0 /\ endTime = 0
    /\ time = 0 /\ frame = 0
    /\ intervals = <<>> /\ schedStart = 0 /\ schedEnd = 0
    /\ wcetsValid = "unset" /\ deadlinesValid = "unset"
    /\ calls = 0 /\ firstSchedule = <<>>
    /\ pending = <<>> /\ schedulerIndex = 1 /\ successCount = noSuccesses
    /\ priorityQueue = <<>> /\ previousJob = NoJob /\ preemptor = NoJob

\* One iteration of the main loop with a non-zero bottleneck.
EkAugment ==
    /\ maxFlow < ekFlowLimit
    /\ Augment

\* if max == 0: break; return (flow, flows)
EkReturn ==
    /\ pc = "ek"
    /\ breadthFirstSearch(capacityMap, neighbors, flowMap, sourceIndex, sinkIndex).max = 0
    /\ pc' = "returned"
    /\ UNCHANGED <<edfVars, harnessVars, historyVars, inputVars, result, geometryVars, networkVars, bfdVars,
                   intervalToJobs, argVars, scheduleVars, validationVars>>

NextEdmondsKarp ==
    \/ EkAugment
    \/ EkReturn

SpecEdmondsKarp == InitEdmondsKarp /\ [][NextEdmondsKarp]_vars

\* ------------------------------------------------------------------------
\* run_test: one utilization folder, every task set against every scheduler class
\* ------------------------------------------------------------------------
MaxFolder == 2

harnessEndTime == 72

OverloadedTasks == <<Task(1, 2, 1, 2), Task(2, 2, 2, 2)>>
HarnessTaskSets == {Scenario2Tasks, Scenario3Tasks, Scenario4Tasks, OverloadedTasks}

InitHarness ==
    /\ tasks \in HarnessTaskSets
    /\ pending \in UNION {[1..n -> HarnessTaskSets] : n \in 0..(MaxFolder - 1)}
    /\ schedulerIndex = 1
    /\ successCount = noSuccesses
    /\ priorityQueue = <<>> /\ previousJob = NoJob /\ preemptor = NoJob
    /\ jobs = BuildJobs(tasks)
    /\ solver = "none"
    /\ pc = "new"
    /\ result = "pending"
    /\ hyperPeriod = 0 /\ frameSize = 0 /\ numFrames = 0
    /\ validFrameMap = <<>>
    /\ indexToNodeId = <<>> /\ nodeIdToIndex = <<>>
    /\ capacityMap = <<>> /\ neighbors = <<>> /\ flowMap = <<>> /\ maxFlow = 0
    /\ jobIds = <<>> /\ bfdNext = 1
    /\ intervalToJobs = <<>>
    /\ startTime = 0 /\ endTime = 0
    /\ time = 0 /\ frame = 0
    /\ intervals = <<>> /\ schedStart = 0 /\ schedEnd = 0
    /\ wcetsValid = "unset" /\ deadlinesValid = "unset"
    /\ calls = 0 /\ firstSchedule = <<>>

\* schedulerIns = schedulerCls(taskSet): the call is outside every try block, so a
\* ValueError raised by the constructor (pc = "failed") leaves run_test.
HarnessConstruct == Construct(schedulers[schedulerIndex])

\* test_scheduler: scheduler.buildSchedule(0, 72) inside try / except.
HarnessCall == CallBuildSchedule(0, harnessEndTime)

\* test_scheduler: schedule != None and schedule.validateDeadlines()
HarnessValidate ==
    /\ pc = "built"
    /\ deadlinesValid' = IF validateDeadlines(tasks, intervals) THEN "True" ELSE "False"
    /\ pc' = "validated"
    /\ UNCHANGED <<edfVars, harnessVars, historyVars, inputVars, result, geometryVars, networkVars, bfdVars,
                   intervalToJobs, argVars, scheduleVars, wcetsValid>>

\* test_scheduler has returned (buildSchedule returned or raised inside the try).
testSchedulerReturned == pc \in {"done", "validated"}

\* The value test_scheduler returns as success.
testSchedulerSuccess == IF pc = "validated" /\ deadlinesValid = "True" THEN 1 ELSE 0

\* results[name]["successCount"] += success, then the next scheduler class, the next
\* task set of the folder, or the dump of the results.
HarnessRecord ==
    /\ testSchedulerReturned
    /\ successCount' = [successCount EXCEPT
                            ![schedulers[schedulerIndex]] = @ + testSchedulerSuccess]
    /\ IF schedulerIndex < Len(schedulers)
       THEN /\ schedulerIndex' = schedulerIndex + 1
            /\ pc' = "new"
            /\ UNCHANGED <<tasks, jobs, pending>>
       ELSE IF Len(pending) > 0
       THEN /\ tasks' = Head(pending)
            /\ jobs' = BuildJobs(Head(pending))
            /\ pending' = Tail(pending)
            /\ schedulerIndex' = 1
            /\ pc' = "new"
       ELSE /\ pc' = "reported"
            /\ UNCHANGED <<tasks, jobs, pending, schedulerIndex>>
    /\ solver' = "none"
    /\ result' = "pending"
    /\ hyperPeriod' = 0 /\ frameSize' = 0 /\ numFrames' = 0
    /\ validFrameMap' = <<>>
    /\ indexToNodeId' = <<>> /\ nodeIdToIndex' = <<>>
    /\ capacityMap' = <<>> /\ neighbors' = <<>> /\ flowMap' = <<>> /\ maxFlow' = 0
    /\ jobIds' = <<>> /\ bfdNext' = 1
    /\ intervalToJobs' = <<>>
    /\ startTime' = 0 /\ endTime' = 0
    /\ time' = 0 /\ frame' = 0
    /\ intervals' = <<>> /\ schedStart' = 0 /\ schedEnd' = 0
    /\ wcetsValid' = "unset" /\ deadlinesValid' = "unset"
    /\ calls' = 0 /\ firstSchedule' = <<>>
    /\ UNCHANGED edfVars

NextHarness ==
    \/ HarnessConstruct
    \/ HarnessCall
    \/ RunFlowBuild
    \/ Augment
    \/ FlowCheck
    \/ BfdReset
    \/ BfdPlace
    \/ FlowOutput
    \/ IlpSolve
    \/ BuildFrame
    \/ Finalize
    \/ HarnessValidate
    \/ HarnessRecord

SpecHarness == InitHarness /\ [][NextHarness]_vars

\* ------------------------------------------------------------------------
\* Properties
\* ------------------------------------------------------------------------
\* _makeAssignmentDecision returned a map (not None) in this run.
HasAssignment == DOMAIN intervalToJobs # {}

Constructed == pc \notin {"new", "failed"}

Occurrences(job) ==
    SumSeq([k \in 1..numFrames |->
              Cardinality({x \in 1..Len(intervalToJobs[k]) : intervalToJobs[k][x] = job})])

FrameLoad(k) ==
    SumSeq([x \in 1..Len(intervalToJobs[k]) |-> JobWcet(tasks, intervalToJobs[k][x])])

Divides(f, H) == \E q \in 1..H : q * f = H
CommonDivisors(a, b) == {d \in 1..a : Divides(d, a) /\ Divides(d, b)}
GreatestCommonDivisor(a, b) == CHOOSE d \in CommonDivisors(a, b) : \A e \in CommonDivisors(a, b) : e <= d

\* The three frame-size rules (a), (b), (c).
FrameRules(f) ==
    /\ Divides(f, getHyperPeriod(tasks))
    /\ \A x \in 1..Len(tasks) : f >= tasks[x].wcet
    /\ \A x \in 1..Len(tasks) :
          2 * f - GreatestCommonDivisor(tasks[x].period, f) <= tasks[x].relativeDeadline

AdmissibleFrameSizes == {f \in 2..getHyperPeriod(tasks) : FrameRules(f)}

\* C1: whenever a solver returns an assignment, every job of the task set is listed
\* in the job list of exactly one frame (never missing, never listed twice).
C1_EveryJobInExactlyOneFrame ==
    HasAssignment => \A x \in 1..Len(jobs) : Occurrences(jobs[x]) = 1

\* C2: whenever a solver returns an assignment, the WCETs of the jobs listed in a
\* frame sum to at most the frame size, for every frame.
C2_FrameCapacity ==
    HasAssignment => \A k \in 1..numFrames : FrameLoad(k) <= frameSize

C2_Witness ==
    /\ HasAssignment /\ solver = "flow" /\ Len(jobIds) > 0
    /\ \E k \in 1..numFrames : \E x \in 1..Len(intervalToJobs[k]) :
          /\ JobKey(intervalToJobs[k][x]) \in Range(jobIds)
          /\ FrameLoad(k) = frameSize

\* C3: whenever a solver returns an assignment, every job listed in frame k has k in
\* its valid-frame list.
C3_PlacedInValidFrame ==
    HasAssignment =>
        \A k \in 1..numFrames : \A x \in 1..Len(intervalToJobs[k]) :
            k \in Range(validFrameMap[JobKey(intervalToJobs[k][x])])

C3_Witness ==
    /\ HasAssignment /\ solver = "flow" /\ Len(jobIds) > 0
    /\ \E k \in 1..numFrames : \E x \in 1..Len(intervalToJobs[k]) :
          /\ JobKey(intervalToJobs[k][x]) \in Range(jobIds)
          /\ Len(validFrameMap[JobKey(intervalToJobs[k][x])]) < numFrames

\* C4: every Schedule returned by buildSchedule passes the validator: validateDeadlines
\* and validateWcets both return True.
C4_RoundTrip ==
    pc = "validated" => (deadlinesValid = "True" /\ wcetsValid = "True")

\* C5: frame-size derivation returns the largest f in 2..H that divides H, is at least
\* every C_i and has 2f - gcd(T_i, f) <= D_i for every task.
C5_LargestAdmissibleFrameSize ==
    (pc # "new" /\ AdmissibleFrameSizes # {}) =>
        /\ result # "ValueError"
        /\ frameSize \in AdmissibleFrameSizes
        /\ \A g \in AdmissibleFrameSizes : g <= frameSize

C5_Witness ==
    /\ pc = "ready"
    /\ Cardinality(AdmissibleFrameSizes) > 1
    /\ frameSize > 2

\* C6: if no f in 2..H satisfies the three rules, construction fails with ValueError;
\* no frame size, frame count or valid-frame map is set and no assignment or schedule
\* is ever obtained.
C6_InfeasibleFrameSize ==
    (pc # "new" /\ AdmissibleFrameSizes = {}) =>
        /\ result = "ValueError" /\ pc = "failed"
        /\ frameSize = 0 /\ numFrames = 0 /\ validFrameMap = <<>>
        /\ ~HasAssignment /\ intervals = <<>>
        /\ ~ENABLED Next

C6_Witness ==
    /\ pc = "failed" /\ result = "ValueError"
    /\ FrameRules(1)
    /\ hyperPeriod > 1

\* C7: each valid-frame list is in ascending order and holds exactly the frames
\* k in 1..F whose whole extent [(k-1)f, kf] lies in the job's window [(j-1)T, jT].
FrameInWindow(k, job) ==
    \A t \in ((k - 1) * frameSize)..(k * frameSize) :
        (job.id - 1) * JobPeriod(tasks, job) <= t /\ t <= job.id * JobPeriod(tasks, job)

C7_ValidFrameSetExact ==
    Constructed =>
        \A x \in 1..Len(jobs) :
            LET V == validFrameMap[JobKey(jobs[x])]
            IN  /\ \A a, b \in 1..Len(V) : a < b => V[a] < V[b]
                /\ Range(V) = {k \in 1..numFrames : FrameInWindow(k, jobs[x])}

C7_Witness ==
    /\ pc = "ready"
    /\ \E x \in 1..Len(jobs) :
          /\ Len(validFrameMap[JobKey(jobs[x])]) > 1
          /\ Len(validFrameMap[JobKey(jobs[x])]) < numFrames
    /\ \E x \in 1..Len(jobs) : \E k \in 1..numFrames :
          /\ k \notin Range(validFrameMap[JobKey(jobs[x])])
          /\ (k - 1) * frameSize < jobs[x].id * JobPeriod(tasks, jobs[x])
          /\ k * frameSize > (jobs[x].id - 1) * JobPeriod(tasks, jobs[x])

\* C8: once a frame size is chosen, every job of the hyperperiod has a non-empty
\* valid-frame list.
C8_ValidFrameSetNonEmpty ==
    Constructed => \A x \in 1..Len(jobs) : Len(validFrameMap[JobKey(jobs[x])]) > 0

C8_Witness ==
    /\ pc = "ready" /\ numFrames > 1
    /\ \E x \in 1..Len(jobs) : Len(validFrameMap[JobKey(jobs[x])]) = 1
    /\ \E x \in 1..Len(tasks) : tasks[x].relativeDeadline < tasks[x].period

\* C9: in every returned Schedule each busy interval lasts exactly its job's C_i.
C9_BusyDurationIsWcet ==
    result = "Schedule" =>
        \A x \in 1..Len(intervals) :
            ~isIdle(intervals[x]) =>
                intervals[x].endTime - intervals[x].startTime
                    = getTaskById(tasks, intervals[x].taskId).wcet

\* C10: in every returned Schedule each interval ends where the next one starts, start
\* times never decrease, and the last interval ends at schedule.endTime =
\* max(latest job deadline, endTime).
C10_ContiguousIntervals ==
    result = "Schedule" =>
        /\ \A x \in 1..(Len(intervals) - 1) :
              /\ intervals[x].endTime = intervals[x + 1].startTime
              /\ intervals[x].startTime <= intervals[x + 1].startTime
        /\ \A x \in 1..Len(intervals) : intervals[x].startTime <= intervals[x].endTime
        /\ intervals[Len(intervals)].endTime = schedEnd
        /\ schedEnd = Max(latestDeadline(tasks, jobs), endTime)

\* The intervals of a returned Schedule that stem from frame k: the busy intervals of
\* the jobs listed in frame k and the idle intervals started inside the frame.
Duration(interval) == interval.endTime - interval.startTime

IntervalsOfFrame(k) ==
    {x \in 1..(Len(intervals) - 1) :
        IF isIdle(intervals[x])
        THEN (k - 1) * frameSize <= intervals[x].startTime /\ intervals[x].startTime < k * frameSize
        ELSE [task |-> intervals[x].taskId, id |-> intervals[x].jobId] \in Range(intervalToJobs[k])}

RECURSIVE SumOver(_, _)
SumOver(S, ivs) ==
    IF S = {} THEN 0
    ELSE LET x == CHOOSE y \in S : TRUE IN Duration(ivs[x]) + SumOver(S \ {x}, ivs)

\* C11: in every returned Schedule, for every frame k the busy intervals of the jobs
\* assigned to k and the frame's idle interval lie inside [(k-1)f, kf] and fill it
\* exactly; no interval starts in one frame and ends in another.
C11_FrameBoundaries ==
    result = "Schedule" =>
        \A k \in 1..numFrames :
            /\ \A x \in IntervalsOfFrame(k) :
                  /\ (k - 1) * frameSize <= intervals[x].startTime
                  /\ intervals[x].startTime <= intervals[x].endTime
                  /\ intervals[x].endTime <= k * frameSize
            /\ SumOver(IntervalsOfFrame(k), intervals) = frameSize

BusyIntervalsOf(job) ==
    {x \in 1..Len(intervals) :
        intervals[x].taskId = job.task /\ intervals[x].jobId = job.id}

\* C12: in every returned Schedule there is exactly one busy interval per job of the
\* task set, and every idle interval carries no job (taskId 0).
C12_OneBusyIntervalPerJob ==
    result = "Schedule" =>
        /\ \A x \in 1..Len(jobs) : Cardinality(BusyIntervalsOf(jobs[x])) = 1
        /\ \A x \in 1..Len(intervals) :
              \/ isIdle(intervals[x]) /\ intervals[x].taskId = 0
              \/ \E y \in 1..Len(jobs) : x \in BusyIntervalsOf(jobs[y])

\* W: the total work of one hyperperiod, sum over tasks of C_i * (H / T_i).
TotalWork ==
    SumSeq([x \in 1..Len(tasks) |-> tasks[x].wcet * (getHyperPeriod(tasks) \div tasks[x].period)])

\* The flow solver is past edmondsKarp and the assertion on its value.
FlowStageOver == solver = "flow" /\ pc \notin {"new", "failed", "ready", "assign", "ek"}

\* C13: when the max-flow value differs from the total work W, the flow solver's
\* _makeAssignmentDecision returns None: best-fit descent is not run, no assignment
\* is obtained, and buildSchedule returns None without adding an interval.
C13_FlowInfeasibleAssignment ==
    (FlowStageOver /\ maxFlow # TotalWork) =>
        /\ result = "None" /\ pc = "done"
        /\ jobIds = <<>> /\ bfdNext = 1
        /\ ~HasAssignment
        /\ intervals = <<>>

C13_Witness ==
    /\ FlowStageOver /\ pc = "done" /\ result = "None"
    /\ maxFlow > 0 /\ maxFlow < TotalWork
    /\ TotalWork <= hyperPeriod

\* Utilization above one, sum_i C_i / T_i > 1, in integers: W > H.
OverUtilized == TotalWork > getHyperPeriod(tasks)

\* C14: for a task set with utilization above one no Schedule is ever produced:
\* construction fails with ValueError, or the solver returns no assignment and
\* buildSchedule returns None.
C14_OverUtilizedNeverScheduled ==
    OverUtilized =>
        /\ result \in {"pending", "ValueError", "None"}
        /\ ~HasAssignment
        /\ intervals = <<>>
        /\ pc \notin {"bfd", "place", "frames", "built", "validated"}
        /\ (pc = "done" => result = "None")
        /\ (pc = "failed" => result = "ValueError")

C14_Witness ==
    /\ OverUtilized /\ pc = "done" /\ result = "None"
    /\ solver = "ilp"
    /\ \A x \in 1..Len(tasks) : tasks[x].wcet <= frameSize

SomeJobWithoutFrame == \E x \in 1..Len(jobs) : Len(validFrameMap[JobKey(jobs[x])]) = 0

FirstOverloaded(k) ==
    /\ FrameLoad(k) > frameSize
    /\ \A k2 \in 1..(k - 1) : FrameLoad(k2) <= frameSize

\* C16: for every job-to-frame map in which the jobs of some frame k, started at the
\* frame's start, total more than f, buildSchedule returns no Schedule that holds an
\* interval of frame k running past k*f.
C16_OverrunAborts ==
    (result = "Schedule" /\ startTime = 0) =>
        \A k \in 1..numFrames :
            FirstOverloaded(k) =>
                \A x \in 1..Len(intervals) :
                    (~isIdle(intervals[x])
                        /\ [task |-> intervals[x].taskId, id |-> intervals[x].jobId]
                              \in Range(intervalToJobs[k]))
                    => intervals[x].endTime <= k * frameSize

\* The summed duration of the busy intervals of interval x's job, up to and including x.
SummedDuration(x) ==
    SumOver({y \in 1..x : ~isIdle(intervals[y]) /\ ivKey(intervals[y]) = ivKey(intervals[x])},
            intervals)

WcetExceededAt(x) ==
    /\ ~isIdle(intervals[x])
    /\ intervals[x].jobCompleted
    /\ SummedDuration(x) > getTaskById(tasks, intervals[x].taskId).wcet

\* C17: validateWcets returns False exactly when at some busy interval flagged
\* jobCompleted the summed duration of that job's busy intervals, up to and including
\* it, exceeds the task's C_i; idle intervals are ignored.
C17_ValidateWcetsExact ==
    pc = "validated" =>
        (wcetsValid = "False" <=> \E x \in 1..Len(intervals) : WcetExceededAt(x))

C17_Witness ==
    /\ pc = "validated" /\ wcetsValid = "False"
    /\ \A x \in 1..Len(intervals) :
          ~isIdle(intervals[x]) =>
              Duration(intervals[x]) <= getTaskById(tasks, intervals[x].taskId).wcet
    /\ \E x \in 1..Len(intervals) : isIdle(intervals[x]) /\ Duration(intervals[x]) > 0

DeadlineMissedAt(x) ==
    /\ ~isIdle(intervals[x])
    /\ intervals[x].jobCompleted
    /\ intervals[x].endTime > intervals[x].jobId * getTaskById(tasks, intervals[x].taskId).period

\* C18: validateDeadlines returns True exactly when every busy interval flagged
\* jobCompleted ends at or before the absolute deadline of its job; idle intervals and
\* busy intervals not flagged completed never cause a failure.
C18_ValidateDeadlinesExact ==
    pc = "validated" =>
        (deadlinesValid = "True" <=> \A x \in 1..Len(intervals) : ~DeadlineMissedAt(x))

C18_Witness ==
    /\ pc = "validated" /\ deadlinesValid = "True"
    /\ \E x \in 1..Len(intervals) :
          /\ ~isIdle(intervals[x]) /\ ~intervals[x].jobCompleted
          /\ intervals[x].endTime > intervals[x].jobId * getTaskById(tasks, intervals[x].taskId).period
    /\ \E x \in 1..Len(intervals) : ~isIdle(intervals[x]) /\ intervals[x].jobCompleted

\* C19: a run repeated on identical input yields the identical Schedule, interval by
\* interval; here the repetition is a second buildSchedule call, with the same
\* arguments, on the same scheduler instance.
C19_RepeatedCallSameSchedule ==
    (calls = 2 /\ pc \in {"built", "done"}) =>
        /\ result = "Schedule"
        /\ intervals = firstSchedule

\* Scenario 1 is being run with buildSchedule(0, 20).
Scenario1Call ==
    /\ tasks = Scenario1Tasks
    /\ calls = 1 /\ startTime = 0 /\ endTime = 20

Scenario1Geometry ==
    /\ pc # "failed"
    /\ Constructed => (hyperPeriod = 20 /\ frameSize = 2 /\ numFrames = 10 /\ Len(jobs) = 11)

\* The call ends in a Schedule holding every job, which validateDeadlines accepts.
Scenario1Scheduled ==
    /\ pc # "done"
    /\ pc \in {"built", "validated"} =>
          /\ result = "Schedule"
          /\ \A x \in 1..Len(jobs) : Cardinality(BusyIntervalsOf(jobs[x])) = 1
    /\ pc = "validated" => deadlinesValid = "True"

\* C20: scenario 1 (T = [4, 5, 20, 20], C = [1, 2, 1, 2], D = T): f = 2 and F = 10, and
\* with each solver buildSchedule(0, 20) returns a Schedule in which all 11 jobs are
\* scheduled and validateDeadlines returns True.
C20_Scenario1 ==
    tasks = Scenario1Tasks =>
        /\ Scenario1Geometry
        /\ Scenario1Call => Scenario1Scheduled

\* C20 as amended: f = 2 and F = 10; with the ILP solver buildSchedule(0, 20) returns a
\* Schedule in which all 11 jobs are scheduled and validateDeadlines returns True; with
\* the flow solver the max flow equals W = 16 but best-fit descent finds no frame for
\* the split job (2,1), so no assignment is returned and buildSchedule returns None.
C20_Scenario1Amended ==
    tasks = Scenario1Tasks =>
        /\ Scenario1Geometry
        /\ (Scenario1Call /\ solver = "ilp") => Scenario1Scheduled
        /\ (solver = "flow" /\ pc \notin {"new", "ready", "assign", "ek", "bfd", "place"}) =>
              /\ pc = "done" /\ result = "None"
              /\ maxFlow = 16 /\ TotalWork = 16
              /\ jobIds[bfdNext] = <<2, 1>>
              /\ ~HasAssignment /\ intervals = <<>>

C20_Witness ==
    /\ Scenario1Call /\ solver = "ilp"
    /\ pc = "validated" /\ deadlinesValid = "True" /\ wcetsValid = "True"
    /\ Len(intervals) > 11

\* Scenario 3 is being run by the flow solver with buildSchedule(0, 12).
Scenario3FlowCall ==
    /\ tasks = Scenario3Tasks /\ solver = "flow"
    /\ calls = 1 /\ startTime = 0 /\ endTime = 12

\* C21: scenario 3 (T = [4, 6, 12], C = [1, 2, 3], D = T): the flow solver succeeds although
\* max-flow splits a job: best-fit descent re-places every split job, all 6 jobs are
\* placed, and the Schedule of buildSchedule(0, 12) passes validateWcets and
\* validateDeadlines.
C21_Scenario3SplitThenRepair ==
    Scenario3FlowCall =>
        /\ pc # "done"
        /\ pc \in {"frames", "built", "validated"} =>
              /\ \A x \in 1..Len(jobs) :
                    Cardinality({k \in 1..numFrames :
                                    flowMap[frameIndexOf(jobs, k)][1 + x] > 0}) = 1
              /\ \A x \in 1..Len(jobs) : Occurrences(jobs[x]) = 1
        /\ pc \in {"built", "validated"} =>
              /\ result = "Schedule"
              /\ Len(jobs) = 6
              /\ \A x \in 1..Len(jobs) : Cardinality(BusyIntervalsOf(jobs[x])) = 1
        /\ pc = "validated" => (wcetsValid = "True" /\ deadlinesValid = "True")

C21_Witness ==
    /\ Scenario3FlowCall
    /\ pc = "validated"
    /\ Len(jobIds) > 0
    /\ wcetsValid = "True" /\ deadlinesValid = "True"

\* C22: scenario 3 (T = [4, 6, 12], C = [1, 2, 3], D = T, H = 12): the frame size chosen
\* by the frame-size derivation is 3 or smaller.
C22_Scenario3FrameSize ==
    (tasks = Scenario3Tasks /\ Constructed) => frameSize <= 3

\* C22 as amended: the frame size chosen for scenario 3 is 4, the largest divisor of
\* H = 12 meeting the three frame rules, so that F = 3.
C22_Scenario3FrameSizeAmended ==
    tasks = Scenario3Tasks =>
        /\ pc # "failed"
        /\ Constructed =>
              /\ hyperPeriod = 12 /\ frameSize = 4 /\ numFrames = 3
              /\ FrameRules(4)
              /\ \A f \in 5..12 : ~FrameRules(f)

C22_Witness ==
    /\ tasks = Scenario3Tasks
    /\ pc = "ready"
    /\ frameSize = 4

\* C23: scenario 4 (over-utilized T = [3, 5], C = [2, 4], D = T): with both solvers the
\* scheduler is constructed and the failure comes from the assignment solver:
\* buildSchedule returns None, and no other failure kind occurs.
C23_Scenario4InfeasibleAssignment ==
    tasks = Scenario4Tasks =>
        /\ pc # "failed"
        /\ result \notin {"ValueError", "ZeroDivisionError", "Schedule"}
        /\ pc \in {"done", "built", "validated"} => (HasAssignment = FALSE /\ result = "None")

\* C23 as amended: for scenario 4 the construction of either scheduler fails with
\* InfeasibleFrameSize (the ValueError of _getValidFrameSize, no f in 2..15 meeting the
\* three frame rules); no solver runs and no Schedule is produced.
C23_Scenario4InfeasibleFrameSize ==
    tasks = Scenario4Tasks =>
        /\ OverUtilized
        /\ \A f \in 1..15 : ~FrameRules(f)
        /\ pc \in {"new", "failed"}
        /\ pc = "failed" => (result = "ValueError" /\ solver \in {"flow", "ilp"})
        /\ calls = 0 /\ intervals = <<>> /\ ~HasAssignment

C23_Witness ==
    /\ tasks = Scenario4Tasks
    /\ pc = "failed" /\ result = "ValueError"
    /\ solver = "flow"

\* A run of one scheduler on one task set has ended without a schedule the harness
\* counts: InfeasibleFrameSize from the constructor, InfeasibleAssignment or
\* InvalidSchedule (None or an exception) from buildSchedule.
RunFailed ==
    \/ pc = "failed"
    \/ pc = "done"
    \/ pc = "validated" /\ deadlinesValid = "False"

\* C24: in run_test every failure kind of every (task set, scheduler class) pair is
\* observed as a 'no schedule' result adding 0 to successCount, after which the harness
\* goes on to the next scheduler or task set; no failure aborts the run.
C24_HarnessObservesFailures ==
    RunFailed => (testSchedulerReturned /\ testSchedulerSuccess = 0)

\* ------------------------------------------------------------------------
\* Properties of edmondsKarp
\* ------------------------------------------------------------------------
Vertices == DOMAIN capacityMap

Residual(u, v) == capacityMap[u][v] - flowMap[u][v]

\* The vertices reachable from the set S through edges of positive residual.
RECURSIVE ResidualClosure(_)
ResidualClosure(S) ==
    LET S2 == S \cup {v \in Vertices : \E u \in S : Residual(u, v) > 0}
    IN  IF S2 = S THEN S ELSE ResidualClosure(S2)

CutCapacity(S) ==
    LET order == indexSeq(Cardinality(Vertices))
    IN  SumSeq([x \in 1..Len(order) |->
                  IF order[x] \in S
                  THEN SumSeq([y \in 1..Len(order) |->
                                 IF order[y] \notin S THEN capacityMap[order[x]][order[y]] ELSE 0])
                  ELSE 0])

Cuts == {S \in SUBSET Vertices : sourceIndex \in S /\ sinkIndex \notin S}

MinCutCapacity ==
    CHOOSE m \in {CutCapacity(S) : S \in Cuts} : \A S \in Cuts : m <= CutCapacity(S)

RowSum(u) ==
    LET order == indexSeq(Cardinality(Vertices))
    IN  SumSeq([x \in 1..Len(order) |-> flowMap[u][order[x]]])

\* C25: for every network with non-negative integer capacities edmondsKarp returns the
\* maximum flow value: on return the end vertex cannot be reached from the start through
\* edges of positive residual, and the value equals the capacity of a minimum cut.
C25_MaxFlowMinCut ==
    pc = "returned" =>
        /\ sinkIndex \notin ResidualClosure({sourceIndex})
        /\ maxFlow = MinCutCapacity

C25_Witness ==
    /\ pc = "returned"
    /\ maxFlow = 4
    /\ flowMap[2][4] > 0 /\ flowMap[3][5] > 0 /\ flowMap[sourceIndex][sinkIndex] > 0

\* C26: throughout edmondsKarp and in the matrix it returns the flow matrix is
\* antisymmetric: flow[v][u] = -flow[u][v] for all vertices u, v.
C26_FlowAntisymmetric ==
    pc \in {"ek", "returned"} =>
        \A u, v \in Vertices : flowMap[v][u] = -flowMap[u][v]

C26_Witness ==
    /\ pc = "ek"
    /\ maxFlow > 0
    /\ \E u, v \in Vertices : flowMap[u][v] > 0 /\ flowMap[v][u] < 0

\* C27: after every augmentation the matrix is a feasible flow: flow[u][v] <= cap[u][v]
\* for all u, v; the flow out of every vertex other than start and end sums to 0; and the
\* accumulated value is the net flow out of the start.
C27_FeasibleFlow ==
    pc \in {"ek", "returned"} =>
        /\ \A u, v \in Vertices : flowMap[u][v] <= capacityMap[u][v]
        /\ \A u \in Vertices \ {sourceIndex, sinkIndex} : RowSum(u) = 0
        /\ maxFlow = RowSum(sourceIndex)

C27_Witness ==
    /\ pc = "ek"
    /\ maxFlow >= 2
    /\ \E u \in Vertices \ {sourceIndex, sinkIndex} :
          \E v, w \in Vertices : flowMap[u][v] > 0 /\ flowMap[u][w] < 0

NoDuplicates(q) == \A a, b \in 1..Len(q) : q[a] = q[b] => a = b

\* The next breadthFirstSearch call of the main loop.
NextSearch == breadthFirstSearch(capacityMap, neighbors, flowMap, sourceIndex, sinkIndex)

\* C28: edmondsKarp terminates on every finite network with non-negative integer
\* capacities: a breadthFirstSearch call enqueues every vertex at most once and ends,
\* every augmentation increases the flow value by at least 1, and the main loop
\* eventually gets a bottleneck of 0 and returns. Stated with the flow value as the
\* variant of the loop: each search ends with a bottleneck that is 0 (the loop returns)
\* or at least 1 and within what the start vertex can still send, so the loop runs at
\* most as many times as the capacity out of the start.
C28_Terminates ==
    /\ [](pc = "ek" =>
            /\ NoDuplicates(NextSearch.enqueued)
            /\ Len(NextSearch.enqueued) <= Cardinality(Vertices)
            /\ \/ NextSearch.max = 0
               \/ /\ NextSearch.max >= 1
                  /\ maxFlow + NextSearch.max <= CutCapacity({sourceIndex}))
    /\ [][pc' = "ek" => maxFlow' >= maxFlow + 1]_vars
    /\ [](maxFlow <= CutCapacity({sourceIndex}))

C28_Witness ==
    /\ pc = "returned"
    /\ maxFlow >= 3
    /\ Len(NextSearch.enqueued) >= 3

\* ------------------------------------------------------------------------
\* Properties of the flow network and of the repair
\* ------------------------------------------------------------------------
\* runFlowAlgorithm has built the network of this run.
NetworkBuilt == solver = "flow" /\ DOMAIN capacityMap # {}

JobVertex(x) == 1 + x
FrameVertex(k) == 1 + Len(jobs) + k

\* The capacity the network is said to have from u to v, in half units.
StatedCapacityHalves(u, v) ==
    IF u = 0 /\ \E k \in 1..numFrames : v = FrameVertex(k)
    THEN 2 * frameSize
    ELSE IF \E x \in 1..Len(jobs) : u = JobVertex(x) /\ v = 1
    THEN wcetHalves(getTaskById(tasks, jobs[u - 1].task))
    ELSE IF \E k \in 1..numFrames : \E x \in 1..Len(jobs) :
               /\ u = FrameVertex(k) /\ v = JobVertex(x)
               /\ k \in Range(validFrameMap[JobKey(jobs[x])])
    THEN 2 * frameSize
    ELSE 0

StatedIndexing ==
    /\ DOMAIN indexToNodeId = 0..(Len(jobs) + numFrames + 1)
    /\ indexToNodeId[0] = <<-2, 0>>
    /\ indexToNodeId[1] = <<-2, 1>>
    /\ \A x \in 1..Len(jobs) : indexToNodeId[JobVertex(x)] = JobKey(jobs[x])
    /\ \A k \in 1..numFrames : indexToNodeId[FrameVertex(k)] = <<-1, k>>
    /\ \A i \in DOMAIN indexToNodeId : nodeIdToIndex[indexToNodeId[i]] = i
    /\ \A id \in DOMAIN nodeIdToIndex : indexToNodeId[nodeIdToIndex[id]] = id

\* C29: the network built by runFlowAlgorithm has exactly these capacities:
\* cap[s][frame k] = f for every k; cap[frame k][job (i,j)] = f if and only if k is in
\* V(i,j); cap[job (i,j)][t] = C_i for every job; every other entry, reverse directions
\* included, is 0; with source = 0, sink = 1, jobs from index 2 in insertion order, then
\* the frames in ascending k, and index <-> nodeId a bijection.
C29_NetworkCapacities ==
    NetworkBuilt =>
        /\ StatedIndexing
        /\ DOMAIN capacityMap = DOMAIN indexToNodeId
        /\ \A u, v \in DOMAIN capacityMap : 2 * capacityMap[u][v] = StatedCapacityHalves(u, v)

\* The frames job x receives positive flow from, in the flow matrix fm.
FeedingFrames(fm, x) == {k \in 1..numFrames : fm[FrameVertex(k)][JobVertex(x)] > 0}

IsSplit(fm, x) == Cardinality(FeedingFrames(fm, x)) > 1

\* What the split jobs receive from frame k in fm.
SplitFlowOfFrame(fm, k) ==
    SumSeq([x \in 1..Len(jobs) |->
              IF IsSplit(fm, x) /\ k \in FeedingFrames(fm, x)
              THEN fm[FrameVertex(k)][JobVertex(x)] ELSE 0])

\* The summed WCET of the un-split jobs fed by frame k in fm.
UnsplitWorkOfFrame(fm, k) ==
    SumSeq([x \in 1..Len(jobs) |->
              IF ~IsSplit(fm, x) /\ k \in FeedingFrames(fm, x)
              THEN JobWcet(tasks, jobs[x]) ELSE 0])

\* The reset step of runBestFitDescentApproximation, from flowMap to flowMap'.
ResetExact ==
    /\ Range(jobIds') = {JobKey(jobs[x]) : x \in {y \in 1..Len(jobs) : IsSplit(flowMap, y)}}
    /\ \A x \in 1..Len(jobs) :
          IF IsSplit(flowMap, x)
          THEN /\ \A k \in 1..numFrames : flowMap'[FrameVertex(k)][JobVertex(x)] = 0
               /\ flowMap'[JobVertex(x)][sinkIndex] =
                     flowMap[JobVertex(x)][sinkIndex]
                     - SumSeq([k \in 1..numFrames |->
                                 Max(flowMap[FrameVertex(k)][JobVertex(x)], 0)])
          ELSE /\ \A k \in 1..numFrames :
                     flowMap'[FrameVertex(k)][JobVertex(x)] =
                        flowMap[FrameVertex(k)][JobVertex(x)]
               /\ flowMap'[JobVertex(x)][sinkIndex] = flowMap[JobVertex(x)][sinkIndex]
    /\ \A k \in 1..numFrames :
          /\ flowMap'[sourceIndex][FrameVertex(k)] =
                flowMap[sourceIndex][FrameVertex(k)] - SplitFlowOfFrame(flowMap, k)
          /\ flowMap'[sourceIndex][FrameVertex(k)] = UnsplitWorkOfFrame(flowMap, k)

\* A placement step leaves the entries of the jobs that were not split alone.
PlacementKeepsUnsplit ==
    \A x \in 1..Len(jobs) :
        JobKey(jobs[x]) \notin Range(jobIds) =>
            /\ \A k \in 1..numFrames :
                  flowMap'[FrameVertex(k)][JobVertex(x)] = flowMap[FrameVertex(k)][JobVertex(x)]
            /\ flowMap'[JobVertex(x)][sinkIndex] = flowMap[JobVertex(x)][sinkIndex]

\* C30: the repair resets exactly the split jobs: the jobs whose flow is zeroed are those
\* with positive incoming flow from more than one frame, each split contribution is
\* subtracted from s->k, k->(i,j) and (i,j)->t, the frame->job and job->sink entries of a
\* job fed by exactly one frame are unchanged by the whole repair, and after the reset
\* flow[s][k] of every frame is the summed C_i of the un-split jobs it still holds.
C30_ResetExactlySplitJobs ==
    [][/\ (pc = "bfd" /\ pc' = "place") => ResetExact
       /\ (pc = "place" /\ pc' \in {"place", "done", "frames"}) => PlacementKeepsUnsplit]_vars

C30_Witness ==
    /\ pc = "place" /\ bfdNext = 1
    /\ Len(jobIds) > 0
    /\ \E k \in 1..numFrames :
          /\ UnsplitWorkOfFrame(flowMap, k) > 0
          /\ flowMap[sourceIndex][FrameVertex(k)] < capacityMap[sourceIndex][FrameVertex(k)]

\* ------------------------------------------------------------------------
\* Runs on task sets in which two tasks share a period, inserted in either id order
\* ------------------------------------------------------------------------
EqualPeriodTaskSets ==
    {<<Task(1, 6, 1, 2), Task(2, 6, 2, 2), Task(3, 6, 2, 2)>>,
     <<Task(1, 6, 1, 2), Task(3, 6, 2, 2), Task(2, 6, 2, 2)>>,
     <<Task(3, 6, 1, 2), Task(2, 6, 2, 2), Task(1, 6, 2, 2)>>}

InitEqualPeriod ==
    /\ tasks \in EqualPeriodTaskSets
    /\ jobs = BuildJobs(tasks)
    /\ solver = "none"
    /\ pc = "new"
    /\ result = "pending"
    /\ hyperPeriod = 0 /\ frameSize = 0 /\ numFrames = 0
    /\ validFrameMap = <<>>
    /\ indexToNodeId = <<>> /\ nodeIdToIndex = <<>>
    /\ capacityMap = <<>> /\ neighbors = <<>> /\ flowMap = <<>> /\ maxFlow = 0
    /\ jobIds = <<>> /\ bfdNext = 1
    /\ intervalToJobs = <<>>
    /\ startTime = 0 /\ endTime = 0
    /\ time = 0 /\ frame = 0
    /\ intervals = <<>> /\ schedStart = 0 /\ schedEnd = 0
    /\ wcetsValid = "unset" /\ deadlinesValid = "unset"
    /\ calls = 0 /\ firstSchedule = <<>>
    /\ pending = <<>> /\ schedulerIndex = 1 /\ successCount = noSuccesses
    /\ priorityQueue = <<>> /\ previousJob = NoJob /\ preemptor = NoJob

SpecEqualPeriod == InitEqualPeriod /\ [][Next]_vars

\* ------------------------------------------------------------------------
\* Runs on task sets whose repair meets frames of unequal residual capacity
\* ------------------------------------------------------------------------
BestFitTaskSets ==
    {<<Task(1, 20, 2, 9), Task(2, 10, 1, 5), Task(3, 20, 4, 11)>>,
     <<Task(1, 10, 3, 8), Task(2, 20, 1, 14), Task(3, 20, 2, 8)>>}

InitBestFit ==
    /\ tasks \in BestFitTaskSets
    /\ jobs = BuildJobs(tasks)
    /\ solver = "none"
    /\ pc = "new"
    /\ result = "pending"
    /\ hyperPeriod = 0 /\ frameSize = 0 /\ numFrames = 0
    /\ validFrameMap = <<>>
    /\ indexToNodeId = <<>> /\ nodeIdToIndex = <<>>
    /\ capacityMap = <<>> /\ neighbors = <<>> /\ flowMap = <<>> /\ maxFlow = 0
    /\ jobIds = <<>> /\ bfdNext = 1
    /\ intervalToJobs = <<>>
    /\ startTime = 0 /\ endTime = 0
    /\ time = 0 /\ frame = 0
    /\ intervals = <<>> /\ schedStart = 0 /\ schedEnd = 0
    /\ wcetsValid = "unset" /\ deadlinesValid = "unset"
    /\ calls = 0 /\ firstSchedule = <<>>
    /\ pending = <<>> /\ schedulerIndex = 1 /\ successCount = noSuccesses
    /\ priorityQueue = <<>> /\ previousJob = NoJob /\ preemptor = NoJob

SpecBestFit == InitBestFit /\ [][Next]_vars

\* ------------------------------------------------------------------------
\* EdfPriorityQueue.popPreemptingJob, called on the queues of small task sets
\* ------------------------------------------------------------------------
EdfTaskSets ==
    {<<Task(1, 2, 1, 2), Task(2, 4, 3, 4)>>,
     <<Task(2, 2, 1, 2), Task(1, 4, 3, 4)>>,
     <<Task(1, 4, 2, 4), Task(2, 2, 1, 2), Task(3, 2, 1, 2)>>,
     <<Task(3, 4, 3, 4), Task(2, 1, 1, 1), Task(1, 2, 1, 2)>>,
     <<Task(3, 12, 9, 12), Task(2, 6, 1, 6), Task(1, 4, 1, 4)>>}

\* the queue holding the jobs at the positions in S of the job list
queueOf(ts, js, S) ==
    sortQueue(SelectSeq([x \in 1..Len(js) |-> queuedJob(ts, js[x], JobWcet(ts, js[x]))],
                        LAMBDA j : \E x \in S : JobKey(js[x]) = <<j.task, j.id>>))

InitEdf ==
    /\ tasks \in EdfTaskSets
    /\ jobs = BuildJobs(tasks)
    /\ solver = "none"
    /\ pc = "edf"
    /\ result = "pending"
    /\ hyperPeriod = 0 /\ frameSize = 0 /\ numFrames = 0
    /\ validFrameMap = <<>>
    /\ indexToNodeId = <<>> /\ nodeIdToIndex = <<>>
    /\ capacityMap = <<>> /\ neighbors = <<>> /\ flowMap = <<>> /\ maxFlow = 0
    /\ jobIds = <<>> /\ bfdNext = 1
    /\ intervalToJobs = <<>>
    /\ startTime = 0 /\ endTime = 0
    /\ time \in 0..getHyperPeriod(tasks) /\ frame = 0
    /\ intervals = <<>> /\ schedStart = 0 /\ schedEnd = 0
    /\ wcetsValid = "unset" /\ deadlinesValid = "unset"
    /\ calls = 0 /\ firstSchedule = <<>>
    /\ pending = <<>> /\ schedulerIndex = 1 /\ successCount = noSuccesses
    /\ preemptor = NoJob
    /\ \E running \in 0..Len(jobs) :
          /\ previousJob \in
                IF running = 0 THEN {NoJob}
                ELSE {queuedJob(tasks, jobs[running], r) : r \in 0..JobWcet(tasks, jobs[running])}
          /\ priorityQueue \in
                {queueOf(tasks, jobs, S) : S \in SUBSET ((1..Len(jobs)) \ {running})}

\* preemptor = self.priorityQueue.popPreemptingJob(t, previousJob)
PopPreemptingJob ==
    /\ pc = "edf"
    /\ LET r == popPreemptingJob(priorityQueue, time, previousJob)
       IN  /\ preemptor' = r.ret
           /\ priorityQueue' = r.jobs
    /\ pc' = "popped"
    /\ UNCHANGED <<previousJob, harnessVars, historyVars, inputVars, result, geometryVars,
                   networkVars, bfdVars, intervalToJobs, argVars, scheduleVars, validationVars>>

NextEdf == PopPreemptingJob

SpecEdf == InitEdf /\ [][NextEdf]_vars

\* The position of a job in the task set's job list (its insertion order).
InsertionIndex(key) == CHOOSE x \in 1..Len(jobs) : JobKey(jobs[x]) = key

PeriodOfKey(key) == getTaskById(tasks, key[1]).period

\* key a comes before key b in (period, task id, job id) order
BeforeByIds(a, b) ==
    \/ PeriodOfKey(a) < PeriodOfKey(b)
    \/ /\ PeriodOfKey(a) = PeriodOfKey(b)
       /\ \/ a[1] < b[1]
          \/ a[1] = b[1] /\ a[2] < b[2]

\* key a comes before key b in (period, insertion order) order
BeforeByInsertion(a, b) ==
    \/ PeriodOfKey(a) < PeriodOfKey(b)
    \/ PeriodOfKey(a) = PeriodOfKey(b) /\ InsertionIndex(a) < InsertionIndex(b)

\* C31: the list of preempted jobs that the placement loop of BFD walks is in
\* ascending task period, ties by ascending task id and then ascending job id,
\* whatever the insertion order of the tasks.
C31_BfdOrderByIds ==
    pc = "place" =>
        \A a, b \in 1..Len(jobIds) : a < b => BeforeByIds(jobIds[a], jobIds[b])

\* C31 amended: the list is in ascending task period, and jobs of equal period keep
\* the order in which the task set lists them (the sort is stable and keyed on the
\* period alone).
C31_BfdOrderByInsertion ==
    pc = "place" =>
        \A a, b \in 1..Len(jobIds) : a < b => BeforeByInsertion(jobIds[a], jobIds[b])

C31_Witness ==
    /\ pc = "place" /\ bfdNext = 1
    /\ \E a, b \in 1..Len(jobIds) :
          /\ a < b
          /\ PeriodOfKey(jobIds[a]) = PeriodOfKey(jobIds[b])
          /\ jobIds[a][1] > jobIds[b][1]

\* R(k) = cap[s][k] - flow[s][k] in the flow matrix fm
FrameResidual(fm, k) == capacityMap[sourceIndex][FrameVertex(k)] - fm[sourceIndex][FrameVertex(k)]

\* the frames of V(i,j) whose residual takes the job's whole WCET
QualifyingFrames(fm, key) ==
    {k \in Range(validFrameMap[key]) : FrameResidual(fm, k) >= getTaskById(tasks, key[1]).wcet}

\* the best-fit frame: smallest residual among the qualifying ones, lowest k on ties
BestFitFrame(fm, key) ==
    CHOOSE k \in QualifyingFrames(fm, key) :
        \A q \in QualifyingFrames(fm, key) :
            \/ FrameResidual(fm, k) < FrameResidual(fm, q)
            \/ FrameResidual(fm, k) = FrameResidual(fm, q) /\ k <= q

\* the flow matrix after adding c on s->k, k->job and job->t and on nothing else
PlacedIn(fm, k, v, c) ==
    [u \in DOMAIN fm |-> [w \in DOMAIN fm[u] |->
        IF \/ u = sourceIndex /\ w = FrameVertex(k)
           \/ u = FrameVertex(k) /\ w = v
           \/ u = v /\ w = sinkIndex
        THEN fm[u][w] + c ELSE fm[u][w]]]

BfdPlaced == pc = "place" /\ bfdNext' = bfdNext + 1

\* C32: each placement step of BFD puts the job in the frame of V(i,j) with the
\* smallest residual R(k) >= C_i (lowest k on ties) and adds C_i to flow[s][k],
\* flow[k][(i,j)] and flow[(i,j)][t] only.
C32_BestFitPlacement ==
    [][BfdPlaced =>
         LET key == jobIds[bfdNext]
             c == getTaskById(tasks, key[1]).wcet
         IN  /\ QualifyingFrames(flowMap, key) # {}
             /\ flowMap' = PlacedIn(flowMap, BestFitFrame(flowMap, key), nodeIdToIndex[key], c)]_vars

\* a placement was made where the first qualifying frame is not the best fit
C32_Witness ==
    /\ pc = "place" /\ bfdNext > 1
    /\ LET key == jobIds[bfdNext - 1]
           v == nodeIdToIndex[key]
           c == getTaskById(tasks, key[1]).wcet
       IN  \E k, q \in Range(validFrameMap[key]) :
              /\ q < k
              /\ flowMap[FrameVertex(k)][v] = c
              /\ FrameResidual(flowMap, q) >= c
              /\ FrameResidual(flowMap, q) > FrameResidual(flowMap, k) + c

\* the placement loop stands at a job that no frame of V(i,j) can take whole
BfdStuck ==
    /\ pc = "place" /\ bfdNext <= Len(jobIds)
    /\ QualifyingFrames(flowMap, jobIds[bfdNext]) = {}

\* C33: when BFD reaches a job with no frame k in V(i,j) of residual R(k) >= C_i,
\* _makeAssignmentDecision returns None (no assignment, not even a partial one) and
\* buildSchedule returns None with no interval added to the schedule.
C33_BfdFailureReturnsNone ==
    [][BfdStuck =>
         /\ result' = "None" /\ pc' = "done"
         /\ intervalToJobs' = <<>> /\ ~HasAssignment'
         /\ intervals' = <<>>]_vars

C33_Witness ==
    /\ solver = "flow" /\ pc = "done" /\ result = "None"
    /\ bfdNext <= Len(jobIds)
    /\ QualifyingFrames(flowMap, jobIds[bfdNext]) = {}
    /\ intervals = <<>>

ScheduleReturned == pc \in {"built", "validated"} /\ result = "Schedule"

\* C34: in a Schedule returned by buildSchedule, every busy interval has
\* jobCompleted = true, every idle interval has jobCompleted = false, and no
\* interval has the 'preempted previous' flag set.
C34_CompletionFlags ==
    ScheduleReturned =>
        \A x \in 1..Len(intervals) :
            /\ intervals[x].jobCompleted = (intervals[x].taskId # 0)
            /\ intervals[x].didPreemptPrevious = FALSE

C34_Witness ==
    /\ ScheduleReturned
    /\ \E x, y \in 1..(Len(intervals) - 1) :
          /\ intervals[x].taskId # 0 /\ intervals[x].jobCompleted
          /\ intervals[y].taskId = 0 /\ ~intervals[y].jobCompleted

\* the returned assignment is a point of the ILP: every job in exactly one frame,
\* that frame in V(i,j), and every frame loaded with at most f
AssignmentMeetsIlpConstraints ==
    /\ \A x \in 1..Len(jobs) : Occurrences(jobs[x]) = 1
    /\ \A k \in 1..numFrames : \A x \in 1..Len(intervalToJobs[k]) :
          k \in Range(validFrameMap[JobKey(intervalToJobs[k][x])])
    /\ \A k \in 1..numFrames : FrameLoad(k) <= frameSize

IlpFeasible == ilpSolutions(tasks, jobs, validFrameMap, frameSize, numFrames) # {}

\* C35: every assignment returned by the flow + BFD solver meets the ILP's
\* constraints, and so the ILP is feasible wherever the flow solver succeeds.
C35_FlowAssignmentIsIlpFeasible ==
    (solver = "flow" /\ HasAssignment) => (AssignmentMeetsIlpConstraints /\ IlpFeasible)

\* the frames whose job list holds the job (taskId, jobId)
FramesListing(taskId, jobId) ==
    {k \in 1..numFrames : \E x \in 1..Len(intervalToJobs[k]) :
        JobKey(intervalToJobs[k][x]) = <<taskId, jobId>>}

\* C36: in a Schedule returned by buildSchedule called with startTime = 0, a busy
\* interval starts no earlier than the release time (j-1)*T_i of its job and no
\* earlier than the start (k-1)*f of the frame the job was assigned to.
C36_BusyAfterReleaseAndFrameStart ==
    (ScheduleReturned /\ startTime = 0) =>
        \A x \in 1..Len(intervals) :
            intervals[x].taskId # 0 =>
                /\ intervals[x].startTime >=
                       (intervals[x].jobId - 1) * getTaskById(tasks, intervals[x].taskId).period
                /\ \A k \in FramesListing(intervals[x].taskId, intervals[x].jobId) :
                       intervals[x].startTime >= (k - 1) * frameSize

\* a job released after time 0, scheduled in a frame that is not the first
C36_Witness ==
    /\ ScheduleReturned /\ startTime = 0
    /\ \E x \in 1..Len(intervals) :
          /\ intervals[x].taskId # 0 /\ intervals[x].jobId > 1
          /\ \E k \in FramesListing(intervals[x].taskId, intervals[x].jobId) :
                k > 1 /\ intervals[x].startTime >= (k - 1) * frameSize

SomeFractionalWcet == \E x \in 1..Len(tasks) : wcetHalves(tasks[x]) % 2 = 1

\* C37: on a task set with a non-integer WCET the flow solver never returns an
\* assignment: the max flow over the truncated job->sink capacities stays below
\* the un-truncated total work W, the assertion of runFlowAlgorithm fails, the
\* repair step is not reached and buildSchedule returns None.
C37_FractionalWcetNeverAssigned ==
    SomeFractionalWcet =>
        /\ pc # "bfd"
        /\ ~HasAssignment
        /\ pc = "done" => (result = "None" /\ 2 * maxFlow < totalWorkNeeded(tasks, jobs))

C37_Witness ==
    /\ SomeFractionalWcet
    /\ pc = "done" /\ result = "None"
    /\ maxFlow > 0
    /\ 2 * maxFlow < totalWorkNeeded(tasks, jobs)

\* the queue positions popPreemptingJob may choose from: strictly higher EDF
\* priority than the running job, released strictly inside (t, t + remainingTime)
PreemptionCandidates ==
    {i \in 1..Len(priorityQueue) :
        /\ previousJob # NoJob
        /\ \/ priorityQueue[i].deadline < previousJob.deadline
           \/ /\ priorityQueue[i].deadline = previousJob.deadline
              /\ priorityQueue[i].task < previousJob.task
        /\ time < priorityQueue[i].releaseTime
        /\ priorityQueue[i].releaseTime < time + previousJob.remainingTime}

\* a is released no later than b, ties by deadline, then by task id
ReleasedFirst(a, b) ==
    \/ a.releaseTime < b.releaseTime
    \/ /\ a.releaseTime = b.releaseTime
       /\ \/ a.deadline < b.deadline
          \/ a.deadline = b.deadline /\ a.task <= b.task

QueueWithout(i) ==
    [x \in 1..(Len(priorityQueue) - 1) |->
        IF x < i THEN priorityQueue[x] ELSE priorityQueue[x + 1]]

\* C38: popPreemptingJob(t, job) removes and returns the earliest-released queued
\* job (ties by deadline, then task id) among those of strictly higher EDF priority
\* than job that are released strictly between t and t + job.remainingTime; with no
\* such job, or with job None, it returns None and leaves the queue as it was.
C38_PopPreemptingJob ==
    [][(pc = "edf" /\ pc' = "popped") =>
         IF PreemptionCandidates = {}
         THEN preemptor' = NoJob /\ priorityQueue' = priorityQueue
         ELSE \E i \in PreemptionCandidates :
                 /\ \A k \in PreemptionCandidates :
                        ReleasedFirst(priorityQueue[i], priorityQueue[k])
                 /\ preemptor' = priorityQueue[i]
                 /\ priorityQueue' = QueueWithout(i)]_vars

\* a job was returned although a later-released candidate stands before it in the queue
C38_Witness ==
    /\ pc = "popped" /\ preemptor # NoJob
    /\ \E i \in PreemptionCandidates :
          /\ priorityQueue[i].releaseTime > preemptor.releaseTime
          /\ \/ priorityQueue[i].deadline < preemptor.deadline
             \/ /\ priorityQueue[i].deadline = preemptor.deadline
                /\ priorityQueue[i].task < preemptor.task

====
